---- MODULE Spec2Model ----
(***************************************************************************)
(* Canvelete TypeScript SDK: the retry engine (withRetry), the two wait    *)
(* loops of RenderResource (waitForCompletion, waitForBatch), the HTTP     *)
(* transport of CanveleteClient (request, handleResponseErrors) and the    *)
(* webhook signature functions.                                            *)
(*                                                                         *)
(* Each component is a state machine of its own over its own variables;    *)
(* SpecRetry, SpecWait, SpecMapper, SpecRequest and SpecHook run one call  *)
(* of one component each, from every input of a bounded set; SpecCancel    *)
(* adds the caller of a retry or a wait, SpecConcurrent runs two calls at  *)
(* once. SpecWaitLive is a wait whose awaits all settle, SpecIterate one   *)
(* iteration of a resource's iterateAll.                                   *)
(***************************************************************************)
EXTENDS Integers, Sequences, FiniteSets, TLC

VARIABLES
    \* withRetry
    r_pc, r_cfg, r_attempt, r_delay, r_error, r_invocations, r_sleeps,
    r_hinted, r_outcome,
    \* waitForCompletion and waitForBatch
    w_call, w_pc, w_timeout, w_pollInterval, w_startTime, w_now, w_status,
    w_response, w_rejection, w_fetches, w_sleeps, w_outcome,
    \* CanveleteClient.handleResponseErrors
    m_pc, m_status, m_body, m_header, m_message, m_outcome,
    \* CanveleteClient.request
    q_pc, q_apiKey, q_timeout, q_binary, q_timer, q_aborted, q_outcome,
    \* verifyWebhookSignature, constructWebhookEvent, generateWebhookSignature
    h_pc, h_call, h_generated, h_payload, h_secret, h_tolerance, h_signature,
    h_nowMs, h_genMs, h_verdict, h_parsed, h_outcome,
    \* the caller of a retry or of a wait
    c_cancelled,
    \* concurrent calls: the objects they share and the call that is suspended
    s_defaultConfig, s_policy, k_running, k_usesPolicy, k_parkedRetry,
    k_parkedWait,
    \* iterateAll of DesignsResource, TemplatesResource and RenderResource
    p_call, p_pc, p_server, p_limit, p_page, p_requests, p_data, p_totalPages,
    p_index, p_received, p_yielded, p_outcome

retryVars == <<r_pc, r_cfg, r_attempt, r_delay, r_error, r_invocations,
               r_sleeps, r_hinted, r_outcome>>

waitVars == <<w_call, w_pc, w_timeout, w_pollInterval, w_startTime, w_now,
              w_status, w_response, w_rejection, w_fetches, w_sleeps, w_outcome>>

mapperVars == <<m_pc, m_status, m_body, m_header, m_message, m_outcome>>

requestVars == <<q_pc, q_apiKey, q_timeout, q_binary, q_timer, q_aborted,
                 q_outcome>>

hookVars == <<h_pc, h_call, h_generated, h_payload, h_secret, h_tolerance,
              h_signature, h_nowMs, h_genMs, h_verdict, h_parsed, h_outcome>>

callerVars == <<c_cancelled>>

sharedVars == <<s_defaultConfig, s_policy>>

schedVars == <<k_running, k_usesPolicy, k_parkedRetry, k_parkedWait>>

pageVars == <<p_call, p_pc, p_server, p_limit, p_page, p_requests, p_data,
              p_totalPages, p_index, p_received, p_yielded, p_outcome>>

vars == <<retryVars, waitVars, mapperVars, requestVars, hookVars, callerVars,
          sharedVars, schedVars, pageVars>>

\* What a step of one component leaves alone: the other components' state.
notRetryVars ==
    <<waitVars, mapperVars, requestVars, hookVars, callerVars, sharedVars, schedVars,
      pageVars>>
notWaitVars ==
    <<retryVars, mapperVars, requestVars, hookVars, callerVars, sharedVars, schedVars,
      pageVars>>
notMapperVars ==
    <<retryVars, waitVars, requestVars, hookVars, callerVars, sharedVars, schedVars,
      pageVars>>
notRequestVars ==
    <<retryVars, waitVars, hookVars, callerVars, sharedVars, schedVars,
      pageVars>>
notHookVars ==
    <<retryVars, waitVars, mapperVars, requestVars, callerVars, sharedVars, schedVars,
      pageVars>>
notCallerVars ==
    <<retryVars, waitVars, mapperVars, requestVars, hookVars, sharedVars, schedVars,
      pageVars>>
\* withRetry's first statement reads the shared objects.
notEnterVars ==
    <<waitVars, mapperVars, requestVars, hookVars, callerVars, schedVars,
      pageVars>>
\* The event loop resuming the other call touches no object the calls share.
notSwitchRetryVars ==
    <<waitVars, mapperVars, requestVars, hookVars, callerVars, sharedVars,
      k_usesPolicy, k_parkedWait, pageVars>>
notSwitchWaitVars ==
    <<retryVars, mapperVars, requestVars, hookVars, callerVars, sharedVars,
      k_running, k_usesPolicy, k_parkedRetry, pageVars>>

notPageVars ==
    <<retryVars, waitVars, mapperVars, requestVars, hookVars, callerVars,
      sharedVars, schedVars>>

----------------------------------------------------------------------------
(* Values shared by the components.                                        *)

Min(a, b) == IF a <= b THEN a ELSE b

RECURSIVE Pow(_, _)
Pow(b, e) == IF e = 0 THEN 1 ELSE b * Pow(b, e - 1)

\* number | null, and the NaN that parseInt yields: one record shape, so that
\* any two values compare. A message is a tuple of its parts (template
\* literal: the fixed text, then what is interpolated).
Null == [t |-> "null", v |-> 0]
Undefined == [t |-> "undefined", v |-> 0]
NaN == [t |-> "nan", v |-> 0]
Num(n) == [t |-> "num", v |-> n]

\* JavaScript truthiness of a number | null | undefined: null, undefined, NaN
\* and 0 are falsy.
Truthy(x) == x.t = "num" /\ x.v # 0

----------------------------------------------------------------------------
(* The error classes.                                                      *)

SdkSubclasses ==
    {"AuthenticationError", "ValidationError", "NotFoundError",
     "RateLimitError", "ServerError", "InsufficientScopeError"}

ErrorClasses == {"Error", "CanveleteError"} \cup SdkSubclasses

\* The errors of the platform that reach the SDK: fetch rejects with a
\* TypeError (network failure) or with the DOMException named 'AbortError'
\* (aborted signal), response.json() with a SyntaxError.
PlatformErrors == {"TypeError", "SyntaxError", "AbortError"}

\* The prototype chain: every class of the SDK extends CanveleteError, which
\* extends Error; a platform error is an Error and no CanveleteError.
Ancestors(c) ==
    IF c = "Error" THEN {"Error"}
    ELSE IF c = "CanveleteError" THEN {"CanveleteError", "Error"}
    ELSE IF c \in PlatformErrors THEN {c, "Error"}
    ELSE {c, "CanveleteError", "Error"}

\* error.name: each constructor of the SDK sets it to its class's name, as
\* the platform does for its own errors.
ErrorName(e) == e.class

\* error instanceof ErrorClass
InstanceOf(e, ErrorClass) == ErrorClass \in Ancestors(e.class)

\* An error object. origin and id are its identity: which code constructed it
\* and, for an error the operation raised, at which invocation.
MkError(class, message, retryAfter, origin, id) ==
    [class |-> class, message |-> message, retryAfter |-> retryAfter,
     statusCode |-> Null, origin |-> origin, id |-> id]

NoError == MkError("none", <<>>, Null, "none", 0)

\* How a call ended: the value it resolved with or the error it rejected with.
NoOutcome == [kind |-> "none", error |-> NoError, value |-> <<>>]
Returned(v) == [kind |-> "returned", error |-> NoError, value |-> v]
Thrown(e) == [kind |-> "thrown", error |-> e, value |-> <<>>]

----------------------------------------------------------------------------
(* withRetry                                                               *)

\* Bounds of the retry model.
MaxAttemptsBound == 3

DefaultMaxAttempts == 3
DefaultBackoffFactor == 2
DefaultInitialDelay == 1000
DefaultMaxDelay == 60000

defaultConfig ==
    [maxAttempts |-> DefaultMaxAttempts,
     backoffFactor |-> DefaultBackoffFactor,
     initialDelay |-> DefaultInitialDelay,
     maxDelay |-> DefaultMaxDelay,
     retryOn |-> {"RateLimitError", "ServerError"}]

RetryFields == {"maxAttempts", "backoffFactor", "initialDelay", "maxDelay", "retryOn"}

\* The values a caller's Partial<RetryConfig> gives a field it sets.
MaxAttemptsChoices == -1 .. MaxAttemptsBound
BackoffFactorChoices == {1, 2}
InitialDelayChoices == {0, 1, 4}
MaxDelayChoices == {1, 3}
RetryOnChoices ==
    {{}, {"RateLimitError"}, {"RateLimitError", "ServerError"},
     {"CanveleteError"}, {"Error"}}

\* const cfg = { ...defaultConfig, ...config }: a field the caller leaves out
\* keeps its default.
MergeConfig(given, config) ==
    [f \in RetryFields |-> IF f \in given THEN config[f] ELSE defaultConfig[f]]

Configs ==
    {MergeConfig(given, [maxAttempts |-> m, backoffFactor |-> b,
                         initialDelay |-> i, maxDelay |-> x, retryOn |-> r]) :
        given \in SUBSET RetryFields, m \in MaxAttemptsChoices,
        b \in BackoffFactorChoices, i \in InitialDelayChoices,
        x \in MaxDelayChoices, r \in RetryOnChoices}

\* What the operation can reject with.
RetryAfterChoices == {Null, NaN, Num(0), Num(1), Num(2)}
Messages == {<<"boom">>}

OpErrors(id) ==
    {MkError(c, m, Null, "fn", id) :
        c \in ErrorClasses \ {"RateLimitError"}, m \in Messages}
    \cup {MkError("RateLimitError", m, ra, "fn", id) :
            m \in Messages, ra \in RetryAfterChoices}

MaxAttemptsReached ==
    MkError("CanveleteError", <<"Max retry attempts reached">>, Null, "withRetry", 0)

\* What fn resolves with.
Results == {<<"success">>}

ShouldRetry_IgnoresClass(e, cfg) == TRUE

\* cfg.retryOn.some(ErrorClass => error instanceof ErrorClass)
ShouldRetry(e, cfg) == \E ErrorClass \in cfg.retryOn : InstanceOf(e, ErrorClass)

\* error instanceof RateLimitError && error.retryAfter
HasRetryAfter(e) == InstanceOf(e, "RateLimitError") /\ Truthy(e.retryAfter)

\* The delay slept after a retried failure: the hint replaces delay.
DelayAfter(e, delay) == IF HasRetryAfter(e) THEN e.retryAfter.v * 1000 ELSE delay

NextDelay_NoCap(delay, cfg) == delay * cfg.backoffFactor

\* delay = Math.min(delay * cfg.backoffFactor, cfg.maxDelay)
NextDelay(delay, cfg) == Min(delay * cfg.backoffFactor, cfg.maxDelay)

GivesUp_NoAttemptCheck(e, attempt, cfg) == ~ShouldRetry(e, cfg)

GivesUp_OffByOne(e, attempt, cfg) ==
    ~ShouldRetry(e, cfg) \/ attempt > cfg.maxAttempts

\* if (!shouldRetry || attempt >= cfg.maxAttempts) throw error
GivesUp(e, attempt, cfg) == ~ShouldRetry(e, cfg) \/ attempt >= cfg.maxAttempts

RetryStart ==
    /\ r_cfg \in Configs
    /\ r_pc = "loop"
    /\ r_attempt = 0
    /\ r_delay = r_cfg.initialDelay
    /\ r_error = NoError
    /\ r_invocations = 0
    /\ r_sleeps = <<>>
    /\ r_hinted = FALSE
    /\ r_outcome = NoOutcome

WithRetryLoop_TestsAfterBody ==
    /\ r_pc = "loop"
    /\ IF r_invocations = 0 \/ r_attempt < r_cfg.maxAttempts
         THEN /\ r_pc' = "call"
              /\ r_outcome' = r_outcome
         ELSE /\ r_pc' = "done"
              /\ r_outcome' = Thrown(MaxAttemptsReached)
    /\ UNCHANGED <<r_cfg, r_attempt, r_delay, r_error, r_invocations,
                   r_sleeps, r_hinted>>

\* while (attempt < cfg.maxAttempts) { ... } throw new CanveleteError(...)
WithRetryLoop ==
    /\ r_pc = "loop"
    /\ IF r_attempt < r_cfg.maxAttempts
         THEN /\ r_pc' = "call"
              /\ r_outcome' = r_outcome
         ELSE /\ r_pc' = "done"
              /\ r_outcome' = Thrown(MaxAttemptsReached)
    /\ UNCHANGED <<r_cfg, r_attempt, r_delay, r_error, r_invocations,
                   r_sleeps, r_hinted>>

FnResolves_SleepsFirst(v) ==
    /\ r_pc = "call"
    /\ r_invocations' = r_invocations + 1
    /\ r_sleeps' = Append(r_sleeps, r_delay)
    /\ r_pc' = "done"
    /\ r_outcome' = Returned(v)
    /\ UNCHANGED <<r_cfg, r_attempt, r_delay, r_error, r_hinted>>

\* return await fn(), fn resolving with v
FnResolves(v) ==
    /\ r_pc = "call"
    /\ r_invocations' = r_invocations + 1
    /\ r_pc' = "done"
    /\ r_outcome' = Returned(v)
    /\ UNCHANGED <<r_cfg, r_attempt, r_delay, r_error, r_sleeps, r_hinted>>

\* await fn() rejecting with e: the catch block up to await sleep(delay)
FnRejects(e) ==
    /\ r_pc = "call"
    /\ r_invocations' = r_invocations + 1
    /\ r_attempt' = r_attempt + 1
    /\ r_error' = e
    /\ r_hinted' = (r_hinted \/ e.retryAfter # Null)
    /\ IF GivesUp(e, r_attempt', r_cfg)
         THEN /\ r_pc' = "done"
              /\ r_outcome' = Thrown(e)
              /\ UNCHANGED <<r_delay, r_sleeps>>
         ELSE /\ r_pc' = "sleep"
              /\ r_delay' = DelayAfter(e, r_delay)
              /\ r_sleeps' = Append(r_sleeps, r_delay')
              /\ r_outcome' = r_outcome
    /\ UNCHANGED r_cfg

\* sleep(delay) resolving: the backoff step; error leaves scope with the catch
SleepResolves ==
    /\ r_pc = "sleep"
    /\ r_delay' = NextDelay(r_delay, r_cfg)
    /\ r_error' = NoError
    /\ r_pc' = "loop"
    /\ UNCHANGED <<r_cfg, r_attempt, r_invocations, r_sleeps, r_hinted, r_outcome>>

RetryIdle ==
    /\ r_cfg = defaultConfig
    /\ r_pc = "idle"
    /\ r_attempt = 0
    /\ r_delay = 0
    /\ r_error = NoError
    /\ r_invocations = 0
    /\ r_sleeps = <<>>
    /\ r_hinted = FALSE
    /\ r_outcome = NoOutcome

----------------------------------------------------------------------------
(* RenderResource.waitForCompletion and RenderResource.waitForBatch        *)

\* Bounds of the wait model: the status fetches of one wait, the jobs of a
\* batch.
MaxPolls == 3
MaxJobs == 2

JobDefaultTimeout == 300000
JobDefaultPollInterval == 2000
BatchDefaultTimeout == 600000
BatchDefaultPollInterval == 5000

\* options.timeout and options.pollInterval as the caller gives them.
TimeoutChoices == {Undefined, Num(0), Num(1), Num(2), Num(3)}
PollIntervalChoices == {Undefined, Num(0), Num(1), Num(2)}

\* Date.now() when the wait is called.
StartTimeChoices == {0, 7}

OrDefault_UndefinedOnly(x, dflt) == IF x = Undefined THEN dflt ELSE x.v

\* options.x || dflt
OrDefault(x, dflt) == IF Truthy(x) THEN x.v ELSE dflt

\* The status strings a RenderRecord can carry, the four of the API and some
\* it does not define.
StatusValues ==
    {"pending", "processing", "completed", "failed", "Completed", "FAILED", "queued"}

\* A RenderRecord: its status and its error ("" when it has none).
JobRecords ==
    {[status |-> s, error |-> ""] : s \in StatusValues}
    \cup {[status |-> "failed", error |-> "Render failed due to invalid element"]}

NoRecord == [status |-> "none", error |-> ""]

\* The response of the batch status endpoint.
BatchJobStatuses == {"processing", "completed", "failed"}

JobLists ==
    UNION {[1 .. n -> {[status |-> s, error |-> ""] : s \in BatchJobStatuses}] :
              n \in 1 .. MaxJobs}

BatchResponses == {[jobs |-> js, completed |-> c] : js \in JobLists, c \in BOOLEAN}

NoResponse == [jobs |-> <<>>, completed |-> FALSE]

\* What client.request rejects with.
TransportErrors(id) ==
    {MkError(c, <<"HTTP error">>, Null, "request", id) :
        c \in {"CanveleteError", "RateLimitError", "ServerError"}}

\* How long a status fetch takes: no time, a tick, or the whole timeout.
LatencyChoices == {0, 1, w_timeout}

\* How late the timer of a sleep fires.
TimerLagChoices == {0, 1}

\* new Error(`Render job failed: ${status.error || 'Unknown error'}`)
JobFailedError(status) ==
    MkError("Error",
            <<"Render job failed: ",
              IF status.error # "" THEN status.error ELSE "Unknown error">>,
            Null, "waitForCompletion", 0)

\* new Error(`Render job timed out after ${timeout}ms`)
JobTimeoutError(timeout) ==
    MkError("Error", <<"Render job timed out after ", timeout, "ms">>,
            Null, "waitForCompletion", 0)

\* new Error(`Batch render timed out after ${timeout}ms`)
BatchTimeoutError(timeout) ==
    MkError("Error", <<"Batch render timed out after ", timeout, "ms">>,
            Null, "waitForBatch", 0)

BeforeDeadline_Inclusive(now, startTime, timeout) == now - startTime <= timeout

\* Date.now() - startTime < timeout
BeforeDeadline(now, startTime, timeout) == now - startTime < timeout

IsCompleted_AnyCase(status) == status.status \in {"completed", "Completed"}

\* status.status === 'completed'
IsCompleted(status) == status.status = "completed"

IsFailed_Never(status) == FALSE

\* status.status === 'failed'
IsFailed(status) == status.status = "failed"

BatchDone_AllJobsCompleted(response) ==
    \A i \in 1 .. Len(response.jobs) : response.jobs[i].status = "completed"

\* if (response.completed)
BatchDone(response) == response.completed

BatchResult_CompletedOnly(response) ==
    SelectSeq(response.jobs, LAMBDA j : j.status = "completed")

\* return response.jobs
BatchResult(response) == response.jobs

WaitLocals(call, timeout, pollInterval) ==
    /\ w_call = call
    /\ w_timeout = timeout
    /\ w_pollInterval = pollInterval
    /\ w_now \in StartTimeChoices
    /\ w_startTime = w_now
    /\ w_pc = "loop"
    /\ w_status = NoRecord
    /\ w_response = NoResponse
    /\ w_rejection = NoError
    /\ w_fetches = 0
    /\ w_sleeps = 0
    /\ w_outcome = NoOutcome

\* waitForCompletion(jobId, options): the locals before the loop
WaitForCompletionStart ==
    \E t \in TimeoutChoices, p \in PollIntervalChoices :
        WaitLocals("waitForCompletion", OrDefault(t, JobDefaultTimeout),
                   OrDefault(p, JobDefaultPollInterval))

\* waitForBatch(batchId, options): the locals before the loop
WaitForBatchStart ==
    \E t \in TimeoutChoices, p \in PollIntervalChoices :
        WaitLocals("waitForBatch", OrDefault(t, BatchDefaultTimeout),
                   OrDefault(p, BatchDefaultPollInterval))

WaitIdle ==
    /\ w_call = "none"
    /\ w_timeout = 0
    /\ w_pollInterval = 0
    /\ w_now = 0
    /\ w_startTime = 0
    /\ w_pc = "idle"
    /\ w_status = NoRecord
    /\ w_response = NoResponse
    /\ w_rejection = NoError
    /\ w_fetches = 0
    /\ w_sleeps = 0
    /\ w_outcome = NoOutcome

\* while (Date.now() - startTime < timeout) { ... } throw new Error(...)
WaitLoop(call, timeoutError) ==
    /\ w_call = call
    /\ w_pc = "loop"
    /\ IF BeforeDeadline(w_now, w_startTime, w_timeout)
         THEN /\ w_fetches < MaxPolls
              /\ w_pc' = "fetch"
              /\ w_outcome' = w_outcome
         ELSE /\ w_pc' = "done"
              /\ w_outcome' = Thrown(timeoutError)
    /\ UNCHANGED <<w_call, w_timeout, w_pollInterval, w_startTime, w_now,
                   w_status, w_response, w_rejection, w_fetches, w_sleeps>>

WaitForCompletionLoop == WaitLoop("waitForCompletion", JobTimeoutError(w_timeout))

WaitForBatchLoop == WaitLoop("waitForBatch", BatchTimeoutError(w_timeout))

GetStatusResolves_DeadlineFirst(status, d) ==
    /\ w_call = "waitForCompletion"
    /\ w_pc = "fetch"
    /\ w_now' = w_now + d
    /\ w_fetches' = w_fetches + 1
    /\ w_status' = status
    /\ IF ~BeforeDeadline(w_now', w_startTime, w_timeout)
         THEN w_pc' = "done" /\ w_outcome' = Thrown(JobTimeoutError(w_timeout))
         ELSE IF IsCompleted(status)
         THEN w_pc' = "done" /\ w_outcome' = Returned(status)
         ELSE IF IsFailed(status)
         THEN w_pc' = "done" /\ w_outcome' = Thrown(JobFailedError(status))
         ELSE w_pc' = "sleep" /\ w_outcome' = w_outcome
    /\ UNCHANGED <<w_call, w_timeout, w_pollInterval, w_startTime, w_response,
                   w_rejection, w_sleeps>>

\* const status = await this.getStatus(jobId), resolving after d ms, and the
\* two tests of status.status
GetStatusResolves(status, d) ==
    /\ w_call = "waitForCompletion"
    /\ w_pc = "fetch"
    /\ w_now' = w_now + d
    /\ w_fetches' = w_fetches + 1
    /\ w_status' = status
    /\ IF IsCompleted(status)
         THEN w_pc' = "done" /\ w_outcome' = Returned(status)
         ELSE IF IsFailed(status)
         THEN w_pc' = "done" /\ w_outcome' = Thrown(JobFailedError(status))
         ELSE w_pc' = "sleep" /\ w_outcome' = w_outcome
    /\ UNCHANGED <<w_call, w_timeout, w_pollInterval, w_startTime, w_response,
                   w_rejection, w_sleeps>>

\* const response = await this.client.request(...), resolving after d ms, and
\* the test of response.completed
BatchStatusResolves(response, d) ==
    /\ w_call = "waitForBatch"
    /\ w_pc = "fetch"
    /\ w_now' = w_now + d
    /\ w_fetches' = w_fetches + 1
    /\ w_response' = response
    /\ IF BatchDone(response)
         THEN w_pc' = "done" /\ w_outcome' = Returned(BatchResult(response))
         ELSE w_pc' = "sleep" /\ w_outcome' = w_outcome
    /\ UNCHANGED <<w_call, w_timeout, w_pollInterval, w_startTime, w_status,
                   w_rejection, w_sleeps>>

StatusFetchRejects_RetriesTransient(e, d) ==
    /\ w_call \in {"waitForCompletion", "waitForBatch"}
    /\ w_pc = "fetch"
    /\ w_now' = w_now + d
    /\ w_fetches' = w_fetches + 1
    /\ w_rejection' = e
    /\ IF e.class \in {"RateLimitError", "ServerError"}
         THEN w_pc' = "sleep" /\ w_outcome' = w_outcome
         ELSE w_pc' = "done" /\ w_outcome' = Thrown(e)
    /\ UNCHANGED <<w_call, w_timeout, w_pollInterval, w_startTime, w_status,
                   w_response, w_sleeps>>

\* The status fetch of either loop rejecting after d ms with e: neither loop
\* catches.
StatusFetchRejects(e, d) ==
    /\ w_call \in {"waitForCompletion", "waitForBatch"}
    /\ w_pc = "fetch"
    /\ w_now' = w_now + d
    /\ w_fetches' = w_fetches + 1
    /\ w_rejection' = e
    /\ w_pc' = "done"
    /\ w_outcome' = Thrown(e)
    /\ UNCHANGED <<w_call, w_timeout, w_pollInterval, w_startTime, w_status,
                   w_response, w_sleeps>>

PollSleepResolves_TestsBeforeSleeping(lag) ==
    /\ w_call \in {"waitForCompletion", "waitForBatch"}
    /\ w_pc = "sleep"
    /\ w_now' = w_now + w_pollInterval + lag
    /\ w_sleeps' = w_sleeps + 1
    /\ w_pc' = IF BeforeDeadline(w_now, w_startTime, w_timeout) /\ w_fetches < MaxPolls
                 THEN "fetch" ELSE "loop"
    /\ UNCHANGED <<w_call, w_timeout, w_pollInterval, w_startTime, w_status,
                   w_response, w_rejection, w_fetches, w_outcome>>

\* await new Promise(resolve => setTimeout(resolve, pollInterval)): the timer
\* fires pollInterval ms later, or lag ms after that
PollSleepResolves(lag) ==
    /\ w_call \in {"waitForCompletion", "waitForBatch"}
    /\ w_pc = "sleep"
    /\ w_now' = w_now + w_pollInterval + lag
    /\ w_sleeps' = w_sleeps + 1
    /\ w_pc' = "loop"
    /\ UNCHANGED <<w_call, w_timeout, w_pollInterval, w_startTime, w_status,
                   w_response, w_rejection, w_fetches, w_outcome>>

----------------------------------------------------------------------------
(* CanveleteClient.handleResponseErrors                                    *)

\* A string is the sequence of its characters.
UpperLetters ==
    <<"A", "B", "C", "D", "E", "F", "G", "H", "I", "J", "K", "L", "M",
      "N", "O", "P", "Q", "R", "S", "T", "U", "V", "W", "X", "Y", "Z">>

LowerLetters ==
    <<"a", "b", "c", "d", "e", "f", "g", "h", "i", "j", "k", "l", "m",
      "n", "o", "p", "q", "r", "s", "t", "u", "v", "w", "x", "y", "z">>

DigitChars == <<"0", "1", "2", "3", "4", "5", "6", "7", "8", "9">>

LowerChar(c) ==
    IF \E i \in 1 .. 26 : UpperLetters[i] = c
      THEN LowerLetters[CHOOSE i \in 1 .. 26 : UpperLetters[i] = c]
      ELSE c

ToLowerCase_Identity(str) == str

\* String.prototype.toLowerCase
ToLowerCase(str) == [i \in 1 .. Len(str) |-> LowerChar(str[i])]

\* String.prototype.includes
Includes(str, sub) ==
    \E i \in 0 .. Len(str) - Len(sub) : SubSeq(str, i + 1, i + Len(sub)) = sub

\* String(n) of an integer n >= 0
RECURSIVE NatToString(_)
NatToString(n) ==
    IF n < 10 THEN <<DigitChars[n + 1]>>
    ELSE NatToString(n \div 10) \o <<DigitChars[(n % 10) + 1]>>

DigitValue(c) == (CHOOSE i \in 1 .. 10 : DigitChars[i] = c) - 1

IsDigit(c) == \E i \in 1 .. 10 : DigitChars[i] = c

RECURSIVE DigitsValue(_)
DigitsValue(ds) ==
    IF ds = <<>> THEN 0
    ELSE DigitsValue(SubSeq(ds, 1, Len(ds) - 1)) * 10 + DigitValue(ds[Len(ds)])

RECURSIVE SkipSpaces(_)
SkipSpaces(str) ==
    IF str # <<>> /\ str[1] = " " THEN SkipSpaces(Tail(str)) ELSE str

RECURSIVE LeadingDigits(_)
LeadingDigits(str) ==
    IF str # <<>> /\ IsDigit(str[1])
      THEN <<str[1]>> \o LeadingDigits(Tail(str))
      ELSE <<>>

\* parseInt(str) of a string with no radix prefix: leading white space is
\* skipped, then an optional sign, then the longest run of decimal digits;
\* NaN when that run is empty.
ParseInt(str) ==
    LET t == SkipSpaces(str)
        neg == t # <<>> /\ t[1] = "-"
        u == IF t # <<>> /\ t[1] \in {"-", "+"} THEN Tail(t) ELSE t
        ds == LeadingDigits(u)
    IN  IF ds = <<>> THEN NaN
        ELSE Num(IF neg THEN 0 - DigitsValue(ds) ELSE DigitsValue(ds))

\* The statuses a Response can carry.
StatusCodes ==
    {200, 204, 302, 399, 400, 401, 402, 403, 404, 409, 422, 429, 499, 500, 503, 599}

\* The texts of an error body.
BodyTexts ==
    {<<>>,
     <<"f", "o", "r", "b", "i", "d", "d", "e", "n">>,
     <<"s", "c", "o", "p", "e">>,
     <<"n", "o", " ", "S", "c", "o", "p", "e", "!">>,
     <<"S", "C", "O", "P", "E", "S">>,
     <<"s", "c", "o", "p">>,
     <<"s", "c", "o", " ", "p", "e">>}

\* What response.json() gives: a rejection (no JSON), or an object whose
\* error and message are strings; <<>> is the empty string or a field left
\* out, which || treats alike.
Bodies ==
    {[json |-> FALSE, error |-> <<>>, message |-> <<>>]}
    \cup {[json |-> TRUE, error |-> e, message |-> m] :
            e \in BodyTexts,
            m \in {<<>>, <<"s", "c", "o", "p", "e">>, <<"n", "o">>}}

\* response.headers.get('Retry-After'): null, or the header's text.
NoHeader == [present |-> FALSE, text |-> <<>>]
Header(text) == [present |-> TRUE, text |-> text]

RetryAfterHeaders ==
    {NoHeader, Header(<<>>), Header(<<"1", "0">>), Header(<<"0">>),
     Header(<<"5", "s">>), Header(<<"s", "o", "o", "n">>), Header(<<" ", "7">>)}

\* a || b of two strings
OrText(a, b) == IF a # <<>> THEN a ELSE b

\* let message = `HTTP ${response.status}`; try { ... errorData.error ||
\* errorData.message || message } catch {}
ErrorMessage(status, body) ==
    LET dflt == <<"H", "T", "T", "P", " ">> \o NatToString(status)
    IN  IF body.json THEN OrText(body.error, OrText(body.message, dflt)) ELSE dflt

\* message.toLowerCase().includes('scope')
MentionsScope(message) ==
    Includes(ToLowerCase(message), <<"s", "c", "o", "p", "e">>)

\* retryAfter ? parseInt(retryAfter) : null
RetryAfterOf(header) ==
    IF header.present /\ header.text # <<>> THEN ParseInt(header.text) ELSE Null

\* new XError(message, statusCode, response)
HttpError(class, message, retryAfter, statusCode) ==
    [MkError(class, message, retryAfter, "handleResponseErrors", 0)
        EXCEPT !.statusCode = Num(statusCode)]

\* switch (response.status) { ... }
ErrorFor(status, message, header) ==
    CASE status = 401 -> HttpError("AuthenticationError", message, Null, 401)
      [] status = 403 ->
            IF MentionsScope(message)
              THEN HttpError("InsufficientScopeError", message, Null, 403)
              ELSE HttpError("AuthenticationError", message, Null, 403)
      [] status = 404 -> HttpError("NotFoundError", message, Null, 404)
      [] status = 422 -> HttpError("ValidationError", message, Null, 422)
      [] status = 429 ->
            HttpError("RateLimitError", message, RetryAfterOf(header), 429)
      [] OTHER ->
            IF status >= 500
              THEN HttpError("ServerError", message, Null, status)
              ELSE HttpError("CanveleteError", message, Null, status)

MapperStart ==
    /\ m_status \in StatusCodes
    /\ m_body \in Bodies
    /\ m_header \in RetryAfterHeaders
    /\ m_pc = "start"
    /\ m_message = <<>>
    /\ m_outcome = NoOutcome

MapperIdle ==
    /\ m_status = 200
    /\ m_body = [json |-> FALSE, error |-> <<>>, message |-> <<>>]
    /\ m_header = NoHeader
    /\ m_pc = "idle"
    /\ m_message = <<>>
    /\ m_outcome = NoOutcome

\* handleResponseErrors(response), returning
HandleResponseOk ==
    /\ m_pc = "start"
    /\ m_status < 400
    /\ m_pc' = "done"
    /\ m_outcome' = Returned(<<>>)
    /\ UNCHANGED <<m_status, m_body, m_header, m_message>>

\* handleResponseErrors(response), throwing
HandleResponseError ==
    /\ m_pc = "start"
    /\ ~(m_status < 400)
    /\ m_message' = ErrorMessage(m_status, m_body)
    /\ m_pc' = "done"
    /\ m_outcome' = Thrown(ErrorFor(m_status, m_message', m_header))
    /\ UNCHANGED <<m_status, m_body, m_header>>

----------------------------------------------------------------------------
(* CanveleteClient.request                                                 *)

DefaultRequestTimeout == 30000

\* options.apiKey || '': no key, or a key.
ApiKeyChoices == {<<>>, <<"k", "e", "y">>}

\* options.timeout of the client, as the caller gives it.
RequestTimeoutChoices == {Undefined, Num(0), Num(5)}

\* getAuthHeaders() with no API key
NoApiKeyError ==
    MkError("AuthenticationError", <<"No API key provided">>, Null,
            "getAuthHeaders", 0)

\* new CanveleteError(`Request timeout after ${this.timeout}ms`)
RequestTimeoutError(timeout) ==
    MkError("CanveleteError", <<"Request timeout after ", timeout, "ms">>,
            Null, "request", 0)

\* new CanveleteError(`Request failed: ${(error as Error).message}`)
RequestFailedError(e) ==
    MkError("CanveleteError", <<"Request failed: ">> \o e.message, Null,
            "request", 0)

\* What fetch rejects with when the network fails, and what reading the
\* body rejects with.
NetworkErrors == {MkError("TypeError", <<"fetch failed">>, Null, "fetch", 0)}
BodyErrors ==
    {MkError("SyntaxError", <<"Unexpected token">>, Null, "json", 0),
     MkError("TypeError", <<"terminated">>, Null, "arrayBuffer", 0)}

\* What fetch rejects with once its signal is aborted.
AbortError ==
    MkError("AbortError", <<"This operation was aborted">>, Null, "fetch", 0)

\* error instanceof Error && error.name === 'AbortError'
IsAbortError(e) == InstanceOf(e, "Error") /\ ErrorName(e) = "AbortError"

CaughtAs_AlwaysWrapped(e, timeout) ==
    IF IsAbortError(e) THEN RequestTimeoutError(timeout) ELSE RequestFailedError(e)

\* The catch block of request: what it throws for the error it caught.
CaughtAs(e, timeout) ==
    IF IsAbortError(e) THEN RequestTimeoutError(timeout)
    ELSE IF InstanceOf(e, "CanveleteError") THEN e
    ELSE RequestFailedError(e)

\* What the body of a response below 400 parses to.
ResponseValues(binary) == IF binary THEN {<<"bytes">>} ELSE {<<"json">>}

RequestStart ==
    /\ q_pc = "start"
    /\ q_apiKey \in ApiKeyChoices
    /\ \E t \in RequestTimeoutChoices : q_timeout = OrDefault(t, DefaultRequestTimeout)
    /\ q_binary \in BOOLEAN
    /\ q_timer = "none"
    /\ q_aborted = FALSE
    /\ q_outcome = NoOutcome

RequestIdle ==
    /\ q_pc = "idle"
    /\ q_apiKey = <<>>
    /\ q_timeout = DefaultRequestTimeout
    /\ q_binary = FALSE
    /\ q_timer = "none"
    /\ q_aborted = FALSE
    /\ q_outcome = NoOutcome

\* request up to await fetch(url, requestOptions): getAuthHeaders throws
\* outside the try block; otherwise the timer is armed and the call is made.
RequestSend ==
    /\ q_pc = "start"
    /\ IF q_apiKey = <<>>
         THEN /\ q_pc' = "done"
              /\ q_outcome' = Thrown(NoApiKeyError)
              /\ q_timer' = q_timer
         ELSE /\ q_pc' = "fetch"
              /\ q_timer' = "armed"
              /\ q_outcome' = q_outcome
    /\ UNCHANGED <<q_apiKey, q_timeout, q_binary, q_aborted, mapperVars>>

\* setTimeout(() => controller.abort(), this.timeout) firing while the call
\* is in flight
DeadlineFires ==
    /\ q_pc = "fetch"
    /\ q_timer = "armed"
    /\ q_timer' = "fired"
    /\ q_aborted' = TRUE
    /\ UNCHANGED <<q_pc, q_apiKey, q_timeout, q_binary, q_outcome, mapperVars>>

\* await fetch(...) resolving with a response: clearTimeout, then
\* handleResponseErrors(response) is called
FetchResolves(status, body, header) ==
    /\ q_pc = "fetch"
    /\ ~q_aborted
    /\ q_timer' = "cleared"
    /\ q_pc' = "mapper"
    /\ m_status' = status
    /\ m_body' = body
    /\ m_header' = header
    /\ m_pc' = "start"
    /\ UNCHANGED <<m_message, m_outcome>>
    /\ UNCHANGED <<q_apiKey, q_timeout, q_binary, q_aborted, q_outcome>>

\* await fetch(...) rejecting: with the AbortError when the signal is
\* aborted, else with a network error; the catch block
FetchRejects(e) ==
    /\ q_pc = "fetch"
    /\ e = AbortError <=> q_aborted
    /\ q_timer' = IF q_timer = "armed" THEN "cleared" ELSE q_timer
    /\ q_pc' = "done"
    /\ q_outcome' = Thrown(CaughtAs(e, q_timeout))
    /\ UNCHANGED <<q_apiKey, q_timeout, q_binary, q_aborted, mapperVars>>

\* await this.handleResponseErrors(response) settling: its error goes
\* through the catch block, its return leads to reading the body
MapperSettles ==
    /\ q_pc = "mapper"
    /\ m_pc = "done"
    /\ IF m_outcome.kind = "thrown"
         THEN /\ q_pc' = "done"
              /\ q_outcome' = Thrown(CaughtAs(m_outcome.error, q_timeout))
         ELSE /\ q_pc' = "body"
              /\ q_outcome' = q_outcome
    /\ UNCHANGED <<q_apiKey, q_timeout, q_binary, q_timer, q_aborted, mapperVars>>

\* return await response.arrayBuffer() / response.json()
BodyResolves(v) ==
    /\ q_pc = "body"
    /\ q_pc' = "done"
    /\ q_outcome' = Returned(v)
    /\ UNCHANGED <<q_apiKey, q_timeout, q_binary, q_timer, q_aborted, mapperVars>>

\* reading the body rejecting: the catch block
BodyRejects(e) ==
    /\ q_pc = "body"
    /\ q_pc' = "done"
    /\ q_outcome' = Thrown(CaughtAs(e, q_timeout))
    /\ UNCHANGED <<q_apiKey, q_timeout, q_binary, q_timer, q_aborted, mapperVars>>

----------------------------------------------------------------------------
(* Webhook signatures: verifyWebhookSignature, constructWebhookEvent and   *)
(* generateWebhookSignature                                                *)

\* A string is the sequence of its UTF-16 code units: an ASCII character is
\* itself, "U+00E9" is a two-byte character, "U+FFFD" the replacement
\* character and "U+D800" a lone surrogate. A Buffer is the sequence of its
\* bytes: an ASCII byte is its character, the others are "xHH".
Utf8Char(c) ==
    CASE c = "U+00E9" -> <<"xC3", "xA9">>
      [] c \in {"U+FFFD", "U+D800"} -> <<"xEF", "xBF", "xBD">>
      [] OTHER -> <<c>>

\* Buffer.from(str) and hash.update(str): the UTF-8 bytes of the string, a
\* lone surrogate encoded as the replacement character.
RECURSIVE Utf8Encode(_)
Utf8Encode(str) ==
    IF str = <<>> THEN <<>> ELSE Utf8Char(Head(str)) \o Utf8Encode(Tail(str))

NonAsciiBytes == {"xC3", "xA9", "xEF", "xBF", "xBD", "xFF", "xFE"}

\* buffer.toString('utf8'): a well-formed sequence decodes to its character,
\* every byte that is part of none to the replacement character.
RECURSIVE Utf8Decode(_)
Utf8Decode(bytes) ==
    IF bytes = <<>> THEN <<>>
    ELSE IF Len(bytes) >= 2 /\ SubSeq(bytes, 1, 2) = <<"xC3", "xA9">>
      THEN <<"U+00E9">> \o Utf8Decode(SubSeq(bytes, 3, Len(bytes)))
    ELSE IF Len(bytes) >= 3 /\ SubSeq(bytes, 1, 3) = <<"xEF", "xBF", "xBD">>
      THEN <<"U+FFFD">> \o Utf8Decode(SubSeq(bytes, 4, Len(bytes)))
    ELSE IF Head(bytes) \in NonAsciiBytes
      THEN <<"U+FFFD">> \o Utf8Decode(Tail(bytes))
    ELSE <<Head(bytes)>> \o Utf8Decode(Tail(bytes))

\* str.split(sep) for a one-character separator: the pieces between the
\* separators, empty ones included.
RECURSIVE Split(_, _)
Split(str, sep) ==
    IF \E i \in 1 .. Len(str) : str[i] = sep
      THEN LET i == CHOOSE k \in 1 .. Len(str) :
                      str[k] = sep /\ \A j \in 1 .. k - 1 : str[j] # sep
           IN  <<SubSeq(str, 1, i - 1)>> \o Split(SubSeq(str, i + 1, Len(str)), sep)
      ELSE <<str>>

KeyOf_Trimmed(part) == SkipSpaces(Split(part, "=")[1])

\* const [key, value] = part.split('='): the first two pieces; a piece that
\* is not there is undefined, which like '' is falsy and is <<>> here.
KeyOf(part) == Split(part, "=")[1]
ValueOf(part) == LET kv == Split(part, "=") IN IF Len(kv) >= 2 THEN kv[2] ELSE <<>>

\* for (const part of parts) { if (key && value) signatureParts[key] = value }
\* followed by signatureParts[name]: the value of the last pair that has the
\* key and a value, <<>> (undefined) when there is none.
RECURSIVE Lookup(_, _)
Lookup(parts, name) ==
    IF parts = <<>> THEN <<>>
    ELSE LET part == parts[Len(parts)]
         IN  IF KeyOf(part) = name /\ KeyOf(part) # <<>> /\ ValueOf(part) # <<>>
               THEN ValueOf(part)
               ELSE Lookup(SubSeq(parts, 1, Len(parts) - 1), name)

SignatureParts(signature) ==
    LET parts == Split(signature, ",")
    IN  [t |-> Lookup(parts, <<"t">>), v1 |-> Lookup(parts, <<"v", "1">>)]

HexDigits ==
    <<"0", "1", "2", "3", "4", "5", "6", "7", "8", "9", "a", "b", "c", "d", "e", "f">>

\* The hex digest of SHA-256: 32 bytes, two characters each.
DigestHexLen == 64

DefaultTolerance == 300

\* The secrets, the timestamp texts and the payloads of the model.
SecretTable == << <<"k", "1">>, <<"k", "2">>, <<>> >>

TimestampTable ==
    << <<"1", "0", "0", "0">>, <<"7", "0", "0">>, <<"6", "9", "9">>,
       <<"1", "3", "0", "0">>, <<"1", "3", "0", "1">>, <<"9", "9", "8">>,
       <<"9", "9", "7">>, <<"1", "0", "0", "2">>, <<"1", "0", "0", "3">>,
       <<"s", "o", "o", "n">>, <<"7", "0", "0", "x">>, <<"1", "0", "0", "0", ".", "5">> >>

StringPayload(text) == [kind |-> "string", data |-> text]
BufferPayload(bytes) == [kind |-> "buffer", data |-> bytes]

PayloadTable ==
    << StringPayload(<<"{", "}">>), StringPayload(<<>>),
       StringPayload(<<"h", "i">>), StringPayload(<<"5", ".", "{", "}">>),
       StringPayload(<<"U+D800">>), StringPayload(<<"U+FFFD">>),
       BufferPayload(<<"{", "}">>), BufferPayload(<<"xFF">>),
       BufferPayload(<<"xFE">>) >>

Payloads == {PayloadTable[i] : i \in 1 .. Len(PayloadTable)}
Secrets == {SecretTable[i] : i \in 1 .. Len(SecretTable)}
TimestampTexts == {TimestampTable[i] : i \in 1 .. Len(TimestampTable)}

\* typeof payload === 'string' ? payload : payload.toString('utf8')
PayloadStr(payload) ==
    IF payload.kind = "string" THEN payload.data ELSE Utf8Decode(payload.data)

\* `${timestamp}.${payloadStr}`, as the bytes update() hashes
SignedPayload(timestamp, payloadStr) ==
    Utf8Encode(timestamp \o <<".">> \o payloadStr)

\* Every byte sequence the model signs.
HmacInputs ==
    [i \in 1 .. Len(TimestampTable) * Len(PayloadTable) |->
        SignedPayload(TimestampTable[((i - 1) \div Len(PayloadTable)) + 1],
                      PayloadStr(PayloadTable[((i - 1) % Len(PayloadTable)) + 1]))]

\* n as hex digits, width of them
RECURSIVE ToHex(_, _)
ToHex(n, width) ==
    IF width = 0 THEN <<>>
    ELSE ToHex(n \div 16, width - 1) \o <<HexDigits[(n % 16) + 1]>>

\* createHmac('sha256', secret).update(bytes).digest('hex'): DigestHexLen
\* lower-case hex characters. HMAC-SHA256 is taken as collision-free on the
\* keys and messages of the model: the digest is a fixed pattern followed by
\* the number of the (key, message) pair.
HmacSha256Hex(secret, bytes) ==
    LET i == CHOOSE k \in 1 .. Len(SecretTable) : SecretTable[k] = secret
        j == CHOOSE k \in 1 .. Len(HmacInputs) : HmacInputs[k] = bytes
    IN  [p \in 1 .. DigestHexLen - 3 |-> HexDigits[((p * 7) % 16) + 1]]
        \o ToHex((i - 1) * Len(HmacInputs) + j, 3)

CompareDigests_StringEquality(v1Signature, expectedSignature) ==
    [result |-> v1Signature = expectedSignature, path |-> "string equality"]

\* try { return timingSafeEqual(Buffer.from(v1Signature),
\* Buffer.from(expectedSignature)) } catch { return false }: timingSafeEqual
\* throws when the byte lengths differ.
CompareDigests(v1Signature, expectedSignature) ==
    LET a == Utf8Encode(v1Signature)
        b == Utf8Encode(expectedSignature)
    IN  IF Len(a) # Len(b)
          THEN [result |-> FALSE, path |-> "timingSafeEqual threw"]
          ELSE [result |-> a = b, path |-> "timingSafeEqual"]

Abs(n) == IF n < 0 THEN 0 - n ELSE n

Stale_Exclusive(now, timestampNum, tolerance) ==
    timestampNum.t = "num" /\ Abs(now - timestampNum.v) >= tolerance

Stale_NoAbs(now, timestampNum, tolerance) ==
    timestampNum.t = "num" /\ now - timestampNum.v > tolerance

\* Math.abs(now - timestampNum) > tolerance: false when timestampNum is NaN
Stale(now, timestampNum, tolerance) ==
    timestampNum.t = "num" /\ Abs(now - timestampNum.v) > tolerance

\* !timestamp || !v1Signature
SignaturePartsMissing(timestamp, v1Signature) ==
    timestamp = <<>> \/ v1Signature = <<>>

ToleranceOf_NoDefault(tolerance) == tolerance.v

\* const { ..., tolerance = 300 } = options: the default stands in for
\* undefined only.
ToleranceOf(tolerance) ==
    IF tolerance = Undefined THEN DefaultTolerance ELSE tolerance.v

\* verifyWebhookSignature(options) at the clock reading nowMs: the boolean
\* it returns and the return statement that gave it.
VerifyWebhookSignature(payload, signature, secret, tolerance, nowMs) ==
    LET timestamp == SignatureParts(signature).t
        v1Signature == SignatureParts(signature).v1
        timestampNum == ParseInt(timestamp)
        now == nowMs \div 1000
        expectedSignature ==
            HmacSha256Hex(secret, SignedPayload(timestamp, PayloadStr(payload)))
    IN  IF SignaturePartsMissing(timestamp, v1Signature)
          THEN [result |-> FALSE, path |-> "missing"]
        ELSE IF Stale(now, timestampNum, ToleranceOf(tolerance))
          THEN [result |-> FALSE, path |-> "stale"]
        ELSE CompareDigests(v1Signature, expectedSignature)

\* generateWebhookSignature(payload, secret) at the clock reading nowMs
GenerateWebhookSignature(payload, secret, nowMs) ==
    LET timestamp == NatToString(nowMs \div 1000)
    IN  <<"t", "=">> \o timestamp \o <<",", "v", "1", "=">>
        \o HmacSha256Hex(secret, SignedPayload(timestamp, payload))

\* JSON.parse of the payload texts of the model: the value, or the
\* SyntaxError of a text that is no JSON.
JsonSyntaxError ==
    MkError("SyntaxError", <<"Unexpected token">>, Null, "JSON.parse", 0)

ParseWebhookPayload(payload) ==
    LET payloadStr == PayloadStr(payload)
    IN  IF payloadStr = <<"{", "}">> THEN Returned(<<"object">>)
        ELSE Thrown(JsonSyntaxError)

InvalidSignatureError ==
    MkError("Error", <<"Invalid webhook signature">>, Null,
            "constructWebhookEvent", 0)

\* The clock readings (Date.now(), in ms) of the model and the ms the clock
\* moves between a generation and the verification, for a tolerance in s.
NowMsChoices == {1000000, 1000999}
ClockAdvanceChoices(tolerance) ==
    {0, 1, tolerance * 1000, tolerance * 1000 + 1, (tolerance + 1) * 1000}

\* options.tolerance as the caller gives it.
ToleranceChoices == {Undefined, Num(0), Num(2)}

\* parts.join(',')
RECURSIVE Join(_)
Join(parts) ==
    IF Len(parts) = 1 THEN parts[1]
    ELSE parts[1] \o <<",">> \o Join(Tail(parts))

TPart(timestamp) == <<"t", "=">> \o timestamp
V1Part(v1) == <<"v", "1", "=">> \o v1

\* The digest a producer holding the secret computes for the payload.
DigestOf(timestamp, payload, secret) ==
    HmacSha256Hex(secret, SignedPayload(timestamp, PayloadStr(payload)))

\* d with the character at position i replaced by c
WithChar(d, i, c) == [d EXCEPT ![i] = c]

\* The v1 values a header can carry besides the digest d: d with one
\* character changed, in upper case, cut, lengthened, with a two-byte
\* character in place of one or of two characters, and a word.
ForgedDigests(d) ==
    {WithChar(d, 1, IF d[1] = "0" THEN "1" ELSE "0"),
     WithChar(d, DigestHexLen, IF d[DigestHexLen] = "0" THEN "1" ELSE "0"),
     [i \in 1 .. Len(d) |->
        IF \E k \in 1 .. 26 : LowerLetters[k] = d[i]
          THEN UpperLetters[CHOOSE k \in 1 .. 26 : LowerLetters[k] = d[i]]
          ELSE d[i]],
     SubSeq(d, 1, DigestHexLen - 1),
     d \o <<"0">>,
     WithChar(d, 1, "U+00E9"),
     <<"U+00E9">> \o SubSeq(d, 3, DigestHexLen),
     <<"i", "n", "v", "a", "l", "i", "d">>}

\* The Stripe-style headers an inbound request can carry for the payload:
\* well-formed ones for every timestamp text, ones whose v1 is not the
\* digest, and malformed ones.
Signatures(payload, secret) ==
    LET now == TimestampTable[1]
        good == DigestOf(now, payload, secret)
    IN  {Join(<<TPart(ts), V1Part(DigestOf(ts, payload, secret))>>) :
            ts \in TimestampTexts}
        \cup {Join(<<TPart(now), V1Part(v)>>) : v \in ForgedDigests(good)}
        \cup {Join(<<TPart(now), V1Part(DigestOf(now, p, k))>>) :
                p \in Payloads, k \in Secrets}
        \cup {Join(<<V1Part(good), TPart(now)>>),
              Join(<<TPart(TimestampTable[3]), TPart(now), V1Part(good)>>),
              Join(<<TPart(now), TPart(TimestampTable[3]), V1Part(good)>>),
              Join(<<TPart(now), V1Part(good) \o <<"=", "x">> >>),
              Join(<<TPart(now), <<"x", "=", "1">>, V1Part(good)>>),
              Join(<<TPart(now), V1Part(good), TPart(<<>>)>>),
              Join(<<TPart(now), V1Part(good), <<"v", "1">> >>)}
        \cup {<<>>,
              V1Part(good),
              TPart(now),
              Join(<<TPart(<<>>), V1Part(good)>>),
              Join(<<TPart(now), V1Part(<<>>)>>),
              Join(<<<<"t">>, V1Part(good)>>),
              Join(<<<<"=">> \o now, V1Part(good)>>),
              Join(<<TPart(now), <<" ">> \o V1Part(good)>>),
              TPart(now) \o <<";">> \o V1Part(good)}

NoVerdict == [result |-> FALSE, path |-> "none"]

\* An inbound webhook: the application calls verifyWebhookSignature or
\* constructWebhookEvent with the header it received.
HookInbound ==
    /\ h_pc = "call"
    /\ h_generated = FALSE
    /\ h_call \in {"verifyWebhookSignature", "constructWebhookEvent"}
    /\ h_payload \in Payloads
    /\ h_secret \in Secrets
    /\ h_tolerance \in ToleranceChoices
    /\ h_call = "constructWebhookEvent" => h_tolerance = Undefined
    /\ h_signature \in Signatures(h_payload, h_secret)
    /\ h_nowMs \in NowMsChoices
    /\ h_genMs = 0
    /\ h_verdict = NoVerdict
    /\ h_parsed = FALSE
    /\ h_outcome = NoOutcome

\* A producer about to call generateWebhookSignature(payload, secret), the
\* header then going to one of the two consumers.
HookOutbound ==
    /\ h_pc = "generate"
    /\ h_generated = FALSE
    /\ h_call \in {"verifyWebhookSignature", "constructWebhookEvent"}
    /\ h_payload \in {p \in Payloads : p.kind = "string"}
    /\ h_secret \in Secrets
    /\ h_tolerance \in ToleranceChoices
    /\ h_call = "constructWebhookEvent" => h_tolerance = Undefined
    /\ h_signature = <<>>
    /\ h_nowMs \in NowMsChoices
    /\ h_genMs = 0
    /\ h_verdict = NoVerdict
    /\ h_parsed = FALSE
    /\ h_outcome = NoOutcome

HookIdle ==
    /\ h_pc = "idle"
    /\ h_generated = FALSE
    /\ h_call = "none"
    /\ h_payload = StringPayload(<<>>)
    /\ h_secret = <<>>
    /\ h_tolerance = Undefined
    /\ h_signature = <<>>
    /\ h_nowMs = 0
    /\ h_genMs = 0
    /\ h_verdict = NoVerdict
    /\ h_parsed = FALSE
    /\ h_outcome = NoOutcome

\* generateWebhookSignature(payload, secret)
GenerateSignature ==
    /\ h_pc = "generate"
    /\ h_signature' = GenerateWebhookSignature(h_payload.data, h_secret, h_nowMs)
    /\ h_generated' = TRUE
    /\ h_genMs' = h_nowMs
    /\ h_pc' = "sent"
    /\ UNCHANGED <<h_call, h_payload, h_secret, h_tolerance, h_nowMs, h_verdict,
                   h_parsed, h_outcome>>

\* The header travels to the consumer while the clock moves on.
ClockAdvances(ms) ==
    /\ h_pc = "sent"
    /\ h_nowMs' = h_nowMs + ms
    /\ h_pc' = "call"
    /\ UNCHANGED <<h_call, h_generated, h_payload, h_secret, h_tolerance,
                   h_signature, h_genMs, h_verdict, h_parsed, h_outcome>>

\* verifyWebhookSignature({ payload, signature, secret, tolerance })
VerifySignature ==
    /\ h_pc = "call"
    /\ h_call = "verifyWebhookSignature"
    /\ h_verdict' = VerifyWebhookSignature(h_payload, h_signature, h_secret,
                                           h_tolerance, h_nowMs)
    /\ h_outcome' = Returned(<<h_verdict'.result>>)
    /\ h_pc' = "done"
    /\ UNCHANGED <<h_call, h_generated, h_payload, h_secret, h_tolerance,
                   h_signature, h_nowMs, h_genMs, h_parsed>>

\* constructWebhookEvent(payload, signature, secret)
ConstructEvent ==
    /\ h_pc = "call"
    /\ h_call = "constructWebhookEvent"
    /\ h_verdict' = VerifyWebhookSignature(h_payload, h_signature, h_secret,
                                           Undefined, h_nowMs)
    /\ IF ~h_verdict'.result
         THEN /\ h_outcome' = Thrown(InvalidSignatureError)
              /\ h_parsed' = FALSE
         ELSE /\ h_outcome' = ParseWebhookPayload(h_payload)
              /\ h_parsed' = TRUE
    /\ h_pc' = "done"
    /\ UNCHANGED <<h_call, h_generated, h_payload, h_secret, h_tolerance,
                   h_signature, h_nowMs, h_genMs>>

----------------------------------------------------------------------------
(* iterateAll of DesignsResource, TemplatesResource and RenderResource: an  *)
(* async generator that its consumer resumes with next() and may close     *)
(* with return() (a break out of for await).                               *)

\* Bound of the pagination model: the list requests of one iteration.
MaxPages == 3

DefaultIterateLimit == 50

\* options.limit as the caller gives it.
LimitChoices == {Undefined, Num(0), Num(1)}

\* The pages a list endpoint answers with: response.data, which may be left
\* out, and response.pagination?.totalPages, which may be left out too.
PageTable == << <<>>, <<"a">>, <<"a", "b">>, <<"b", "a">> >>

TotalPagesChoices == {Undefined} \cup {Num(n) : n \in 0 .. MaxPages + 1}

ListResponses ==
    {[hasData |-> TRUE, data |-> PageTable[i], totalPages |-> tp] :
        i \in 1 .. Len(PageTable), tp \in TotalPagesChoices}
    \cup {[hasData |-> FALSE, data |-> <<>>, totalPages |-> tp] :
            tp \in TotalPagesChoices}

\* The server: one that reports the same totalPages in every response, or
\* (Undefined) one that reports what it likes.
ServerChoices == {Undefined} \cup {Num(n) : n \in 0 .. MaxPages}

\* response.data || []
DataOf(response) == IF response.hasData THEN response.data ELSE <<>>

IsLastPage_Exclusive(page, totalPages) == page > OrDefault(totalPages, 1)

\* page >= (response.pagination?.totalPages || 1)
IsLastPage(page, totalPages) == page >= OrDefault(totalPages, 1)

\* The generator's end: it ran to its end, or the consumer closed it.
Exhausted == Returned(<<"done">>)
Closed == Returned(<<"closed">>)

\* iterateAll(options): the generator object, no statement of it run yet
IterateAllStart ==
    /\ p_call \in {"designs.iterateAll", "templates.iterateAll", "render.iterateAll"}
    /\ p_pc = "start"
    /\ p_server \in ServerChoices
    /\ \E l \in LimitChoices : p_limit = OrDefault(l, DefaultIterateLimit)
    /\ p_page = 1
    /\ p_requests = <<>>
    /\ p_data = <<>>
    /\ p_totalPages = Undefined
    /\ p_index = 0
    /\ p_received = <<>>
    /\ p_yielded = <<>>
    /\ p_outcome = NoOutcome

PagesIdle ==
    /\ p_call = "none"
    /\ p_pc = "idle"
    /\ p_server = Undefined
    /\ p_limit = 0
    /\ p_page = 0
    /\ p_requests = <<>>
    /\ p_data = <<>>
    /\ p_totalPages = Undefined
    /\ p_index = 0
    /\ p_received = <<>>
    /\ p_yielded = <<>>
    /\ p_outcome = NoOutcome

\* The first next(): let page = 1, const limit, and the first
\* await this.list({ ...options, page, limit })
FirstNext ==
    /\ p_pc = "start"
    /\ p_requests' = Append(p_requests, [page |-> p_page, limit |-> p_limit])
    /\ p_pc' = "await"
    /\ UNCHANGED <<p_call, p_server, p_limit, p_page, p_data, p_totalPages,
                   p_index, p_received, p_yielded, p_outcome>>

\* this.list(...) resolving: the test of the page's length and, for a page
\* that is not empty, the yield of its first item
ListResolves(response) ==
    /\ p_pc = "await"
    /\ p_server # Undefined => response.totalPages = p_server
    /\ p_data' = DataOf(response)
    /\ p_totalPages' = response.totalPages
    /\ p_received' = p_received \o p_data'
    /\ IF Len(p_data') = 0
         THEN /\ p_pc' = "done"
              /\ p_outcome' = Exhausted
              /\ UNCHANGED <<p_index, p_yielded>>
         ELSE /\ p_pc' = "yield"
              /\ p_index' = 1
              /\ p_yielded' = Append(p_yielded, p_data'[1])
              /\ p_outcome' = p_outcome
    /\ UNCHANGED <<p_call, p_server, p_limit, p_page, p_requests>>

\* this.list(...) rejecting: the generator has no try, the iteration throws
ListRejects(e) ==
    /\ p_pc = "await"
    /\ p_pc' = "done"
    /\ p_outcome' = Thrown(e)
    /\ UNCHANGED <<p_call, p_server, p_limit, p_page, p_requests, p_data,
                   p_totalPages, p_index, p_received, p_yielded>>

\* next() at a yield: the next item of the page or, after its last item, the
\* test of the page number and page++ with the next await this.list(...)
ConsumerNext ==
    /\ p_pc = "yield"
    /\ IF p_index < Len(p_data)
         THEN /\ p_index' = p_index + 1
              /\ p_yielded' = Append(p_yielded, p_data[p_index'])
              /\ UNCHANGED <<p_pc, p_page, p_requests, p_outcome>>
         ELSE IF IsLastPage(p_page, p_totalPages)
         THEN /\ p_pc' = "done"
              /\ p_outcome' = Exhausted
              /\ UNCHANGED <<p_page, p_requests, p_index, p_yielded>>
         ELSE /\ Len(p_requests) < MaxPages
              /\ p_page' = p_page + 1
              /\ p_requests' = Append(p_requests, [page |-> p_page', limit |-> p_limit])
              /\ p_pc' = "await"
              /\ UNCHANGED <<p_index, p_yielded, p_outcome>>
    /\ UNCHANGED <<p_call, p_server, p_limit, p_data, p_totalPages, p_received>>

\* return() at a yield: the consumer leaves its for await loop
ConsumerReturns ==
    /\ p_pc = "yield"
    /\ p_pc' = "done"
    /\ p_outcome' = Closed
    /\ UNCHANGED <<p_call, p_server, p_limit, p_page, p_requests, p_data,
                   p_totalPages, p_index, p_received, p_yielded>>

----------------------------------------------------------------------------
(* The caller of withRetry and of the wait loops. withRetry(fn, config),    *)
(* waitForCompletion(jobId, options) and waitForBatch(batchId, options)    *)
(* take no signal or token: what the caller decides after the call is      *)
(* made is state the loops do not read.                                    *)

CallerIdle == c_cancelled = FALSE

\* The caller abandons the call that is running.
CallerCancels ==
    /\ ~c_cancelled
    /\ r_pc \notin {"idle", "done"} \/ w_pc \notin {"idle", "done"}
    /\ c_cancelled' = TRUE

----------------------------------------------------------------------------
(* Concurrent calls. Two calls of withRetry or of a wait are in progress   *)
(* at once; JavaScript runs one of them at a time and resumes the other    *)
(* when the first awaits. r_* and w_* are the locals of the call that      *)
(* runs, k_parkedRetry and k_parkedWait those of the call that is          *)
(* suspended. The calls share the module's defaultConfig object and the    *)
(* policy object their caller passes to both.                              *)

\* A Partial<RetryConfig>: the fields it sets and their values.
NoPolicy == [given |-> {}, fields |-> defaultConfig]

ConcurrentPolicies ==
    {[given |-> RetryFields,
      fields |-> [maxAttempts |-> 2, backoffFactor |-> 2, initialDelay |-> 1,
                  maxDelay |-> 3, retryOn |-> {"Error"}]],
     [given |-> {"maxAttempts", "initialDelay", "maxDelay"},
      fields |-> [maxAttempts |-> 3, backoffFactor |-> 1, initialDelay |-> 4,
                  maxDelay |-> 5, retryOn |-> {}]]}

\* { ...defaults, ...config }
Spread(defaults, config) ==
    [f \in RetryFields |->
        IF f \in config.given THEN config.fields[f] ELSE defaults[f]]

\* The config argument of the call that runs.
ConfigArgument == IF k_usesPolicy[k_running] THEN s_policy ELSE NoPolicy

\* The locals of the call of withRetry that runs, as one value.
RetryLocals ==
    [pc |-> r_pc, cfg |-> r_cfg, attempt |-> r_attempt, delay |-> r_delay,
     error |-> r_error, invocations |-> r_invocations, sleeps |-> r_sleeps,
     hinted |-> r_hinted, outcome |-> r_outcome]

IdleRetryLocals ==
    [pc |-> "idle", cfg |-> defaultConfig, attempt |-> 0, delay |-> 0,
     error |-> NoError, invocations |-> 0, sleeps |-> <<>>, hinted |-> FALSE,
     outcome |-> NoOutcome]

\* A call of withRetry that is made and has not run its first statement.
PendingRetryLocals == [IdleRetryLocals EXCEPT !.pc = "enter"]

\* The locals of the wait that runs, as one value.
WaitLocalsNow ==
    [call |-> w_call, pc |-> w_pc, timeout |-> w_timeout,
     pollInterval |-> w_pollInterval, startTime |-> w_startTime, now |-> w_now,
     status |-> w_status, response |-> w_response,
     rejection |-> w_rejection, fetches |-> w_fetches, sleeps |-> w_sleeps,
     outcome |-> w_outcome]

IdleWaitLocals ==
    [call |-> "none", pc |-> "idle", timeout |-> 0, pollInterval |-> 0,
     startTime |-> 0, now |-> 0, status |-> NoRecord, response |-> NoResponse,
     rejection |-> NoError, fetches |-> 0, sleeps |-> 0, outcome |-> NoOutcome]

\* A wait that is made: its locals before the loop.
StartedWaitLocals(call, timeout, pollInterval, now) ==
    [IdleWaitLocals EXCEPT !.call = call, !.pc = "loop", !.timeout = timeout,
                           !.pollInterval = pollInterval, !.startTime = now,
                           !.now = now]

ConcurrentIdle ==
    /\ s_defaultConfig = defaultConfig
    /\ s_policy = NoPolicy
    /\ k_running = 1
    /\ k_usesPolicy = [id \in {1, 2} |-> FALSE]
    /\ k_parkedRetry = IdleRetryLocals
    /\ k_parkedWait = IdleWaitLocals

\* No webhook function is called, no caller has cancelled and one call runs.
OthersIdle == HookIdle /\ CallerIdle /\ ConcurrentIdle /\ PagesIdle

WithRetryEnter_AssignsDefaults ==
    /\ r_pc = "enter"
    /\ r_cfg' = Spread(s_defaultConfig, ConfigArgument)
    /\ s_defaultConfig' = r_cfg'
    /\ r_attempt' = 0
    /\ r_delay' = r_cfg'.initialDelay
    /\ r_pc' = "loop"
    /\ UNCHANGED <<r_error, r_invocations, r_sleeps, r_hinted, r_outcome, s_policy>>

\* const cfg = { ...defaultConfig, ...config }; let attempt = 0;
\* let delay = cfg.initialDelay
WithRetryEnter ==
    /\ r_pc = "enter"
    /\ r_cfg' = Spread(s_defaultConfig, ConfigArgument)
    /\ r_attempt' = 0
    /\ r_delay' = r_cfg'.initialDelay
    /\ r_pc' = "loop"
    /\ UNCHANGED <<r_error, r_invocations, r_sleeps, r_hinted, r_outcome,
                   s_defaultConfig, s_policy>>

\* The call of withRetry that runs is suspended and the other one resumes.
SwitchRetry ==
    /\ k_parkedRetry.pc \notin {"idle", "done"}
    /\ k_parkedRetry' = RetryLocals
    /\ k_running' = 3 - k_running
    /\ r_pc' = k_parkedRetry.pc
    /\ r_cfg' = k_parkedRetry.cfg
    /\ r_attempt' = k_parkedRetry.attempt
    /\ r_delay' = k_parkedRetry.delay
    /\ r_error' = k_parkedRetry.error
    /\ r_invocations' = k_parkedRetry.invocations
    /\ r_sleeps' = k_parkedRetry.sleeps
    /\ r_hinted' = k_parkedRetry.hinted
    /\ r_outcome' = k_parkedRetry.outcome

\* The wait that runs is suspended and the other one resumes.
SwitchWait ==
    /\ k_parkedWait.pc \notin {"idle", "done"}
    /\ k_parkedWait' = WaitLocalsNow
    /\ w_call' = k_parkedWait.call
    /\ w_pc' = k_parkedWait.pc
    /\ w_timeout' = k_parkedWait.timeout
    /\ w_pollInterval' = k_parkedWait.pollInterval
    /\ w_startTime' = k_parkedWait.startTime
    /\ w_now' = k_parkedWait.now
    /\ w_status' = k_parkedWait.status
    /\ w_response' = k_parkedWait.response
    /\ w_rejection' = k_parkedWait.rejection
    /\ w_fetches' = k_parkedWait.fetches
    /\ w_sleeps' = k_parkedWait.sleeps
    /\ w_outcome' = k_parkedWait.outcome

\* What the operations and the status fetches of concurrent calls do.
ConcurrentOpErrors(id) ==
    {MkError(c, <<"boom">>, Null, "fn", id) :
        c \in {"ServerError", "RateLimitError", "AuthenticationError"}}

ConcurrentJobRecords ==
    {[status |-> s, error |-> ""] : s \in {"processing", "completed", "failed"}}

ConcurrentBatchResponses ==
    {[jobs |-> <<[status |-> "failed", error |-> ""]>>, completed |-> c] :
        c \in BOOLEAN}

----------------------------------------------------------------------------
(* The specifications: one call of one component, the others idle.         *)

InitRetry == RetryStart /\ WaitIdle /\ MapperIdle /\ RequestIdle /\ OthersIdle

NextRetry ==
    \/ WithRetryLoop /\ UNCHANGED notRetryVars
    \/ (\E v \in Results : FnResolves(v)) /\ UNCHANGED notRetryVars
    \/ (\E e \in OpErrors(r_invocations + 1) : FnRejects(e)) /\ UNCHANGED notRetryVars
    \/ SleepResolves /\ UNCHANGED notRetryVars

SpecRetry == InitRetry /\ [][NextRetry]_vars

\* What a status fetch rejects with: an error of any mapped kind, or the
\* error of a request that timed out.
StatusFetchErrors(id) ==
    TransportErrors(id)
    \cup {MkError(c, <<"HTTP error">>, Null, "request", id) : c \in SdkSubclasses}
    \cup {[RequestTimeoutError(DefaultRequestTimeout) EXCEPT !.id = id]}

InitWait ==
    (WaitForCompletionStart \/ WaitForBatchStart) /\ RetryIdle /\ MapperIdle /\ RequestIdle /\ OthersIdle

NextWait ==
    \/ WaitForCompletionLoop /\ UNCHANGED notWaitVars
    \/ WaitForBatchLoop /\ UNCHANGED notWaitVars
    \/ (\E status \in JobRecords, d \in LatencyChoices :
            GetStatusResolves(status, d)) /\ UNCHANGED notWaitVars
    \/ (\E response \in BatchResponses, d \in LatencyChoices :
            BatchStatusResolves(response, d)) /\ UNCHANGED notWaitVars
    \/ (\E e \in StatusFetchErrors(w_fetches + 1), d \in LatencyChoices :
            StatusFetchRejects(e, d)) /\ UNCHANGED notWaitVars
    \/ (\E lag \in TimerLagChoices : PollSleepResolves(lag)) /\ UNCHANGED notWaitVars

SpecWait == InitWait /\ [][NextWait]_vars

\* The same wait when every status fetch settles and every timer fires: the
\* event loop runs a continuation that is ready.
SpecWaitLive == InitWait /\ [][NextWait]_vars /\ WF_vars(NextWait)

InitMapper == MapperStart /\ RetryIdle /\ WaitIdle /\ RequestIdle /\ OthersIdle

NextMapper ==
    \/ HandleResponseOk /\ UNCHANGED notMapperVars
    \/ HandleResponseError /\ UNCHANGED notMapperVars

SpecMapper == InitMapper /\ [][NextMapper]_vars

InitRequest == RequestStart /\ MapperIdle /\ RetryIdle /\ WaitIdle /\ OthersIdle

NextRequest ==
    \/ RequestSend /\ UNCHANGED notRequestVars
    \/ DeadlineFires /\ UNCHANGED notRequestVars
    \/ (\E status \in StatusCodes, body \in Bodies, header \in RetryAfterHeaders :
            FetchResolves(status, body, header)) /\ UNCHANGED notRequestVars
    \/ (\E e \in NetworkErrors \cup {AbortError} : FetchRejects(e)) /\ UNCHANGED notRequestVars
    \/ HandleResponseOk /\ UNCHANGED <<notMapperVars>>
    \/ HandleResponseError /\ UNCHANGED <<notMapperVars>>
    \/ MapperSettles /\ UNCHANGED notRequestVars
    \/ (\E v \in ResponseValues(q_binary) : BodyResolves(v)) /\ UNCHANGED notRequestVars
    \/ (\E e \in BodyErrors : BodyRejects(e)) /\ UNCHANGED notRequestVars

SpecRequest == InitRequest /\ [][NextRequest]_vars

InitHook ==
    /\ HookInbound \/ HookOutbound
    /\ RetryIdle /\ WaitIdle /\ MapperIdle /\ RequestIdle
    /\ CallerIdle /\ ConcurrentIdle /\ PagesIdle

NextHook ==
    \/ GenerateSignature /\ UNCHANGED notHookVars
    \/ (\E ms \in ClockAdvanceChoices(ToleranceOf(h_tolerance)) :
            ClockAdvances(ms)) /\ UNCHANGED notHookVars
    \/ VerifySignature /\ UNCHANGED notHookVars
    \/ ConstructEvent /\ UNCHANGED notHookVars

SpecHook == InitHook /\ [][NextHook]_vars

\* One retry or one wait, and a caller who may abandon it.
InitCancel ==
    /\ \/ RetryStart /\ WaitIdle
       \/ RetryIdle /\ (WaitForCompletionStart \/ WaitForBatchStart)
    /\ MapperIdle /\ RequestIdle /\ OthersIdle

NextCancel ==
    \/ CallerCancels /\ UNCHANGED notCallerVars
    \/ NextRetry
    \/ NextWait

SpecCancel == InitCancel /\ [][NextCancel]_vars

\* Two calls at once: two of withRetry, one of withRetry and a wait, or two
\* waits.
RetryPending ==
    /\ r_pc = "enter"
    /\ r_cfg = defaultConfig
    /\ r_attempt = 0
    /\ r_delay = 0
    /\ r_error = NoError
    /\ r_invocations = 0
    /\ r_sleeps = <<>>
    /\ r_hinted = FALSE
    /\ r_outcome = NoOutcome

ConcurrentWaitStart ==
    \/ WaitLocals("waitForCompletion", 2, 1)
    \/ WaitLocals("waitForBatch", 2, 1)

InitConcurrent ==
    /\ s_defaultConfig = defaultConfig
    /\ s_policy \in ConcurrentPolicies
    /\ k_running = 1
    /\ k_usesPolicy \in [{1, 2} -> BOOLEAN]
    /\ \/ /\ RetryPending /\ k_parkedRetry = PendingRetryLocals
          /\ WaitIdle /\ k_parkedWait = IdleWaitLocals
       \/ /\ RetryPending /\ k_parkedRetry = IdleRetryLocals
          /\ ConcurrentWaitStart /\ k_parkedWait = IdleWaitLocals
          /\ k_usesPolicy[2] = FALSE
       \/ /\ RetryIdle /\ k_parkedRetry = IdleRetryLocals
          /\ ConcurrentWaitStart
          /\ k_parkedWait \in {StartedWaitLocals("waitForBatch", 3, 2, 0),
                                StartedWaitLocals("waitForCompletion", 2, 1, 7)}
          /\ k_usesPolicy = [id \in {1, 2} |-> FALSE]
    /\ MapperIdle /\ RequestIdle /\ HookIdle /\ CallerIdle /\ PagesIdle

NextConcurrent ==
    \/ WithRetryEnter /\ UNCHANGED notEnterVars
    \/ SwitchRetry /\ UNCHANGED notSwitchRetryVars
    \/ SwitchWait /\ UNCHANGED notSwitchWaitVars
    \/ WithRetryLoop /\ UNCHANGED notRetryVars
    \/ (\E v \in Results : FnResolves(v)) /\ UNCHANGED notRetryVars
    \/ (\E e \in ConcurrentOpErrors(r_invocations + 1) : FnRejects(e)) /\ UNCHANGED notRetryVars
    \/ SleepResolves /\ UNCHANGED notRetryVars
    \/ WaitForCompletionLoop /\ UNCHANGED notWaitVars
    \/ WaitForBatchLoop /\ UNCHANGED notWaitVars
    \/ (\E status \in ConcurrentJobRecords, d \in {0, 1} :
            GetStatusResolves(status, d)) /\ UNCHANGED notWaitVars
    \/ (\E response \in ConcurrentBatchResponses, d \in {0, 1} :
            BatchStatusResolves(response, d)) /\ UNCHANGED notWaitVars
    \/ (\E e \in TransportErrors(w_fetches + 1) :
            StatusFetchRejects(e, 0)) /\ UNCHANGED notWaitVars
    \/ (\E lag \in TimerLagChoices : PollSleepResolves(lag)) /\ UNCHANGED notWaitVars

SpecConcurrent == InitConcurrent /\ [][NextConcurrent]_vars

\* One iteration of iterateAll; every list request settles and the consumer
\* goes on calling next() until it leaves the loop or the iteration ends.
InitIterate ==
    /\ IterateAllStart
    /\ RetryIdle /\ WaitIdle /\ MapperIdle /\ RequestIdle
    /\ HookIdle /\ CallerIdle /\ ConcurrentIdle

NextIterate ==
    \/ FirstNext /\ UNCHANGED notPageVars
    \/ (\E response \in ListResponses : ListResolves(response)) /\ UNCHANGED notPageVars
    \/ (\E e \in TransportErrors(Len(p_requests)) : ListRejects(e)) /\ UNCHANGED notPageVars
    \/ ConsumerNext /\ UNCHANGED notPageVars
    \/ ConsumerReturns /\ UNCHANGED notPageVars

SpecIterate == InitIterate /\ [][NextIterate]_vars /\ WF_vars(NextIterate)


----------------------------------------------------------------------------
(* Properties of withRetry.                                                *)

\* The failure's class is covered by the retryable list: it is a listed class
\* or extends one.
Listed(class, retryOn) == Ancestors(class) \cap retryOn # {}

LastSleep == r_sleeps[Len(r_sleeps)]

\* A stop event has occurred at the last invocation.
StoppedAtLast ==
    \/ r_outcome.kind = "returned" /\ r_outcome.value \in Results
    \/ /\ r_outcome.kind = "thrown"
       /\ r_outcome.error.origin = "fn"
       /\ \/ ~Listed(r_outcome.error.class, r_cfg.retryOn)
          \/ r_invocations = r_cfg.maxAttempts

\* C1: for every policy with maxAttempts >= 1, withRetry invokes the operation
\* at most maxAttempts times; it goes on (sleeps, then invokes again) only
\* after a failure of a listed class that is not the maxAttempts-th, it ends
\* only at a success (returning its result), at a failure of an unlisted class
\* or at the maxAttempts-th failure, and once it has ended it never invokes
\* the operation again.
C1_StopsAtFirstStopEvent ==
    /\ [](r_cfg.maxAttempts >= 1 =>
            /\ r_invocations <= r_cfg.maxAttempts
            /\ (r_pc = "sleep" =>
                  /\ Listed(r_error.class, r_cfg.retryOn)
                  /\ r_invocations < r_cfg.maxAttempts
                  /\ r_outcome = NoOutcome)
            /\ (r_pc \in {"loop", "call"} =>
                  /\ Len(r_sleeps) = r_invocations
                  /\ r_invocations < r_cfg.maxAttempts
                  /\ r_outcome = NoOutcome)
            /\ (r_pc = "done" => StoppedAtLast))
    /\ [][r_cfg.maxAttempts >= 1 =>
            /\ (r_outcome # NoOutcome => r_invocations' = r_invocations)
            /\ (r_invocations' # r_invocations =>
                  r_invocations' = r_invocations + 1 /\ r_pc = "call")]_vars

C1_Witness ==
    /\ r_pc = "done"
    /\ r_cfg.maxAttempts = 3
    /\ r_invocations = 3
    /\ r_outcome.kind = "thrown"
    /\ Listed(r_outcome.error.class, r_cfg.retryOn)

\* C2: when withRetry gives up because the attempt count reached maxAttempts
\* (the catch block's throw at attempt >= maxAttempts), the caller receives
\* the very error object the last invocation raised, never an error the retry
\* engine constructed.
C2_ExhaustionThrowsLastError ==
    (r_pc = "done" /\ r_outcome.kind = "thrown" /\ r_invocations >= 1
        /\ r_attempt >= r_cfg.maxAttempts) =>
        /\ r_outcome.error = r_error
        /\ r_outcome.error.origin = "fn"
        /\ r_outcome.error.id = r_invocations
        /\ r_outcome.error # MaxAttemptsReached

C2_Witness ==
    /\ r_pc = "done"
    /\ r_cfg.maxAttempts = 2
    /\ r_attempt = 2
    /\ r_outcome.kind = "thrown"
    /\ r_outcome.error.class = "ServerError"
    /\ r_outcome.error.id = 2

NotRetriedByDefault ==
    {"AuthenticationError", "ValidationError", "NotFoundError",
     "InsufficientScopeError", "CanveleteError", "Error"}

\* The consequences C3 draws: with an empty retryable set (and maxAttempts
\* >= 1, as a RetryPolicy has) one invocation whatever the outcome; under the
\* default policy an Authentication, Validation, NotFound, InsufficientScope
\* or generic error at the first invocation ends the run there.
C3_Consequences ==
    /\ (r_cfg.retryOn = {} /\ r_cfg.maxAttempts >= 1 /\ r_pc = "done") =>
          r_invocations = 1
    /\ (r_cfg = defaultConfig /\ r_error.class \in NotRetriedByDefault
          /\ r_error.id = 1) =>
          (r_pc = "done" /\ r_invocations = 1 /\ r_sleeps = <<>>)

\* The failure in scope ends the run: it is propagated as it is, after the
\* invocation that raised it, with no sleep after it.
PropagatedAtOnce ==
    /\ r_pc = "done"
    /\ r_outcome = Thrown(r_error)
    /\ r_error.id = r_invocations
    /\ Len(r_sleeps) = r_invocations - 1

C4_HintedSleepIsExact ==
    (r_pc = "sleep" /\ r_error.class = "RateLimitError"
        /\ r_error.retryAfter.t = "num" /\ r_error.retryAfter.v >= 0) =>
        LastSleep = r_error.retryAfter.v * 1000

----------------------------------------------------------------------------
(* Properties of the wait loops.                                           *)

Elapsed == w_now - w_startTime

Terminal(status) == status.status \in {"completed", "failed"}

AllJobsCompleted(jobs) == \A i \in 1 .. Len(jobs) : jobs[i].status = "completed"

SomeJobFailed(jobs) == \E i \in 1 .. Len(jobs) : jobs[i].status = "failed"

\* C6: waitForCompletion ends on the first poll that observes a terminal
\* status: 'completed' returns that record, 'failed' raises an error carrying
\* the job's failure reason; it is the last fetch, every fetch before it was
\* followed by one sleep and none follows it (one fetch and no sleep when the
\* first poll is terminal); a sleep only follows a non-terminal observation.
C6_EndsOnFirstTerminalPoll ==
    w_call = "waitForCompletion" =>
        /\ (w_status.status = "completed" =>
              /\ w_pc = "done"
              /\ w_outcome = Returned(w_status)
              /\ w_sleeps = w_fetches - 1)
        /\ (w_status.status = "failed" =>
              /\ w_pc = "done"
              /\ w_outcome.kind = "thrown"
              /\ w_outcome.error.origin = "waitForCompletion"
              /\ w_outcome.error.message[1] = "Render job failed: "
              /\ (w_status.error # "" =>
                    w_outcome.error.message[2] = w_status.error)
              /\ w_sleeps = w_fetches - 1)
        /\ (w_pc \in {"sleep", "loop", "fetch"} => ~Terminal(w_status))

C6_Witness ==
    /\ w_call = "waitForCompletion"
    /\ w_status.status = "completed"
    /\ w_fetches = 1
    /\ w_sleeps = 0
    /\ w_outcome.kind = "returned"

TimeoutErrorOf(call) ==
    IF call = "waitForCompletion" THEN JobTimeoutError(w_timeout)
    ELSE BatchTimeoutError(w_timeout)

\* C7: in either wait loop, while the polls observe nothing terminal every
\* sleep advances the clock by at least pollInterval, so a poll is only made
\* while sleeps * pollInterval < timeout; the loop test that finds elapsed >=
\* timeout ends the wait with the timeout error; that error is raised only
\* then and only when the last poll, if any, observed nothing terminal, and
\* its message differs from the message of the error for a 'failed' job.
C7_TimeoutErrorOnlyOnDeadline ==
    /\ [](w_call # "none" =>
            /\ (w_pc = "fetch" => w_sleeps * w_pollInterval < w_timeout)
            /\ Elapsed >= w_sleeps * w_pollInterval
            /\ (w_outcome = Thrown(TimeoutErrorOf(w_call)) =>
                  /\ Elapsed >= w_timeout
                  /\ ~Terminal(w_status)
                  /\ ~w_response.completed)
            /\ (Terminal(w_status) \/ w_response.completed =>
                  w_outcome # Thrown(TimeoutErrorOf(w_call)))
            /\ (w_status.status = "failed" =>
                  /\ w_outcome.kind = "thrown"
                  /\ w_outcome.error.message[1] # JobTimeoutError(w_timeout).message[1]))
    /\ [][(w_call # "none" /\ w_pc = "loop" /\ Elapsed >= w_timeout) =>
            (w_pc' = "done" /\ w_outcome' = Thrown(TimeoutErrorOf(w_call)))]_vars

C7_Witness ==
    /\ w_call = "waitForCompletion"
    /\ w_outcome = Thrown(JobTimeoutError(3))
    /\ w_fetches = 3
    /\ w_sleeps = 3
    /\ Elapsed = 3

\* C8: waitForBatch resolves only on a poll whose response has the completion
\* flag true; a response with the flag false, every job 'completed' or not,
\* is followed by a sleep of at least pollInterval and then by the loop test,
\* which polls again while the deadline has not passed.
C8_ResolvesOnlyOnFlag ==
    /\ [](w_call = "waitForBatch" =>
            /\ (w_outcome.kind = "returned" => w_response.completed)
            /\ (w_pc = "sleep" => ~w_response.completed))
    /\ [][w_call = "waitForBatch" =>
            /\ (w_pc = "fetch" /\ w_outcome'.kind # "thrown"
                  /\ ~w_response'.completed) => w_pc' = "sleep"
            /\ w_pc = "sleep" =>
                  (w_pc' = "loop" /\ w_now' >= w_now + w_pollInterval)
            /\ (w_pc = "loop" /\ Elapsed < w_timeout) => w_pc' = "fetch"]_vars

C8_Witness ==
    /\ w_call = "waitForBatch"
    /\ w_pc = "fetch"
    /\ w_fetches = 1
    /\ Len(w_response.jobs) = 2
    /\ AllJobsCompleted(w_response.jobs)
    /\ ~w_response.completed

\* C9: in waitForBatch no job reporting 'failed' ends the wait or raises an
\* error: the wait resolves (flag true) with the job sequence of that final
\* response as the server sent it, failed jobs included, and the only error
\* the loop itself raises is the batch timeout error (an error of the status
\* fetch is the fetch's own).
C9_NoPerJobFailure ==
    w_call = "waitForBatch" =>
        /\ (w_outcome.kind = "returned" =>
              w_response.completed /\ w_outcome.value = w_response.jobs)
        /\ (w_outcome.kind = "thrown" /\ w_outcome.error.origin # "request" =>
              w_outcome.error = BatchTimeoutError(w_timeout))
        /\ (SomeJobFailed(w_response.jobs) /\ ~w_response.completed =>
              \/ w_pc \in {"sleep", "loop", "fetch"}
              \/ w_outcome.error = BatchTimeoutError(w_timeout)
              \/ w_outcome.error.origin = "request")

C9_Witness ==
    /\ w_call = "waitForBatch"
    /\ w_outcome.kind = "returned"
    /\ Len(w_outcome.value) = 2
    /\ w_outcome.value[1].status = "failed"
    /\ w_outcome.value[2].status = "completed"

----------------------------------------------------------------------------
(* Properties of the HTTP error mapper.                                    *)

\* The message contains 'scope' in some letter case.
ScopeInAnyCase(message) ==
    \E i \in 1 .. Len(message) - 4 :
        /\ message[i] \in {"s", "S"}
        /\ message[i + 1] \in {"c", "C"}
        /\ message[i + 2] \in {"o", "O"}
        /\ message[i + 3] \in {"p", "P"}
        /\ message[i + 4] \in {"e", "E"}

KindOf(status, message) ==
    IF status = 401 THEN "AuthenticationError"
    ELSE IF status = 403 /\ ScopeInAnyCase(message) THEN "InsufficientScopeError"
    ELSE IF status = 403 THEN "AuthenticationError"
    ELSE IF status = 404 THEN "NotFoundError"
    ELSE IF status = 422 THEN "ValidationError"
    ELSE IF status = 429 THEN "RateLimitError"
    ELSE IF status >= 500 THEN "ServerError"
    ELSE "CanveleteError"

\* C10: the mapper is a total function of (status, message): for every
\* response it ends, raising nothing when status < 400 and otherwise raising
\* one error of the kind the table gives (401 Authentication; 403
\* InsufficientScope when the message contains 'scope' in any letter case,
\* else Authentication; 404 NotFound; 422 Validation; 429 RateLimit; >= 500
\* Server; any other Generic), which carries that status code and message.
C10_MapperTable ==
    /\ m_pc = "start" => ENABLED NextMapper
    /\ m_pc = "done" =>
          IF m_status < 400
            THEN m_outcome = Returned(<<>>)
            ELSE /\ m_outcome.kind = "thrown"
                 /\ m_outcome.error.class = KindOf(m_status, m_message)
                 /\ m_outcome.error.statusCode = Num(m_status)
                 /\ m_outcome.error.message = m_message

C10_Witness ==
    /\ m_pc = "done"
    /\ m_status = 403
    /\ m_message = <<"n", "o", " ", "S", "c", "o", "p", "e", "!">>
    /\ m_outcome.kind = "thrown"
    /\ m_outcome.error.class = "InsufficientScopeError"

\* The text is a decimal integer: digits and nothing else.
IsIntegerText(text) ==
    text # <<>> /\ \A i \in 1 .. Len(text) : IsDigit(text[i])

\* The text holds no digit at all: no reading of it is an integer.
HasNoDigit(text) == \A i \in 1 .. Len(text) : ~IsDigit(text[i])

\* C11: for a 429 response the raised RateLimit error's retryAfter is the
\* integer of the Retry-After header, and is null when the header is absent
\* or its value cannot be parsed as an integer; its message is the body's
\* error field.
C11_RetryAfterFromHeader ==
    (m_pc = "done" /\ m_status = 429) =>
        /\ m_outcome.kind = "thrown"
        /\ m_outcome.error.class = "RateLimitError"
        /\ (m_body.json /\ m_body.error # <<>>) =>
              m_outcome.error.message = m_body.error
        /\ (m_header.present /\ IsIntegerText(m_header.text)) =>
              m_outcome.error.retryAfter = Num(DigitsValue(m_header.text))
        /\ ~m_header.present => m_outcome.error.retryAfter = Null
        /\ (m_header.present /\ HasNoDigit(m_header.text)) =>
              m_outcome.error.retryAfter = Null

----------------------------------------------------------------------------
(* Properties of CanveleteClient.request.                                  *)

\* C12: when the deadline fires before a response arrives, the in-flight
\* call is aborted and request fails with a generic CanveleteError timeout
\* that has no status code and is none of the mapped kinds, the mapper not
\* having run; and an error the mapper raised leaves request as that same
\* error, not rewrapped.
C12_TimeoutIsGenericMapperErrorKept ==
    /\ q_timer = "fired" =>
          /\ q_aborted
          /\ m_pc = "idle"
          /\ q_pc \in {"fetch", "done"}
          /\ q_pc = "fetch" => ENABLED NextRequest
          /\ q_pc = "done" =>
                /\ q_outcome.kind = "thrown"
                /\ q_outcome.error.class = "CanveleteError"
                /\ q_outcome.error.class \notin SdkSubclasses
                /\ q_outcome.error.statusCode = Null
                /\ q_outcome.error.message = <<"Request timeout after ", q_timeout, "ms">>
    /\ (q_pc = "done" /\ m_pc = "done" /\ m_outcome.kind = "thrown") =>
          q_outcome = m_outcome

C12_Witness ==
    /\ q_pc = "done"
    /\ q_timer = "fired"
    /\ q_aborted
    /\ q_outcome.kind = "thrown"
    /\ q_outcome.error.message[1] = "Request timeout after "

----------------------------------------------------------------------------
(* Properties of the webhook signatures.                                   *)

\* C13: round trip: a header that generateWebhookSignature made for a
\* payload string and a secret verifies, with that payload and secret, at
\* the clock reading of its generation and at any reading within the
\* tolerance of it.
C13_RoundTrip ==
    (/\ h_pc = "done"
     /\ h_call = "verifyWebhookSignature"
     /\ h_generated
     /\ h_nowMs - h_genMs <= ToleranceOf(h_tolerance) * 1000) =>
        /\ h_verdict.result = TRUE
        /\ h_outcome = Returned(<<TRUE>>)

C13_Witness ==
    /\ h_pc = "done"
    /\ h_call = "verifyWebhookSignature"
    /\ h_generated
    /\ h_payload = StringPayload(<<"U+D800">>)
    /\ h_tolerance = Num(0)
    /\ h_nowMs = h_genMs
    /\ h_verdict.result = TRUE

\* The header has a pair of this key: one of its comma-separated parts is
\* the key, '=' and a value that is not empty.
HasPair(signature, name) ==
    \E i \in 1 .. Len(Split(signature, ",")) :
        LET part == Split(signature, ",")[i]
            n == Len(name)
        IN  /\ Len(part) >= n + 2
            /\ SubSeq(part, 1, n) = name
            /\ part[n + 1] = "="
            /\ part[n + 2] # "="

\* C14: verifyWebhookSignature returns false for every header that lacks a
\* 't' pair or lacks a 'v1' pair (a pair with an empty value is none),
\* whatever the payload, the secret and the clock are.
C14_MissingPairIsInvalid ==
    (/\ h_pc = "done"
     /\ \/ ~HasPair(h_signature, <<"t">>)
        \/ ~HasPair(h_signature, <<"v", "1">>)) =>
        h_verdict.result = FALSE

C14_Witness ==
    /\ h_pc = "done"
    /\ h_call = "verifyWebhookSignature"
    /\ HasPair(h_signature, <<"t">>)
    /\ ~HasPair(h_signature, <<"v", "1">>)
    /\ \E i \in 1 .. Len(h_signature) - 1 : SubSeq(h_signature, i, i + 1) = <<"v", "1">>
    /\ h_verdict = [result |-> FALSE, path |-> "missing"]

\* The seconds between the clock and an integer timestamp text.
ClockSkew(nowMs, timestamp) == Abs((nowMs \div 1000) - DigitsValue(timestamp))

\* C15: timestamp and digest are checked independently: a header whose t is
\* further than the tolerance from the clock is invalid even when its v1 is
\* the HMAC of '<t>.<payload>' under the secret, and a header whose t is
\* within the tolerance, the boundary included, is not rejected for its
\* timestamp.
C15_StaleTimestampIsInvalid ==
    (/\ h_pc = "done"
     /\ HasPair(h_signature, <<"t">>)
     /\ HasPair(h_signature, <<"v", "1">>)
     /\ IsIntegerText(SignatureParts(h_signature).t)) =>
        LET skew == ClockSkew(h_nowMs, SignatureParts(h_signature).t)
        IN  /\ skew > ToleranceOf(h_tolerance) =>
                /\ h_verdict.result = FALSE
                /\ h_verdict.path = "stale"
            /\ skew <= ToleranceOf(h_tolerance) => h_verdict.path # "stale"

C15_Witness ==
    /\ h_pc = "done"
    /\ h_call = "verifyWebhookSignature"
    /\ h_tolerance = Undefined
    /\ SignatureParts(h_signature).t = <<"1", "3", "0", "1">>
    /\ SignatureParts(h_signature).v1 =
          DigestOf(<<"1", "3", "0", "1">>, h_payload, h_secret)
    /\ h_verdict.result = FALSE

\* The header's v1 is the digest of its t and the payload under the secret.
DigestMatches(payload, signature, secret) ==
    SignatureParts(signature).v1 =
        DigestOf(SignatureParts(signature).t, payload, secret)

\* The header has both keys and its timestamp passes the tolerance test.
Comparable(signature, tolerance, nowMs) ==
    /\ HasPair(signature, <<"t">>)
    /\ HasPair(signature, <<"v", "1">>)
    /\ ~Stale(nowMs \div 1000, ParseInt(SignatureParts(signature).t),
              ToleranceOf(tolerance))

\* C16, its first half: for a header with both keys and an in-tolerance
\* timestamp the result is true if and only if v1 is the lower-case hex
\* HMAC-SHA256 of '<t>.<payload>' under the secret; so no forged v1 (one
\* character changed, upper case, cut, lengthened) is valid.
C16_ValidIffDigestMatches ==
    (h_pc = "done" /\ Comparable(h_signature, h_tolerance, h_nowMs)) =>
        /\ h_verdict.result = DigestMatches(h_payload, h_signature, h_secret)
        /\ \A v \in ForgedDigests(DigestOf(SignatureParts(h_signature).t,
                                           h_payload, h_secret)) :
              SignatureParts(h_signature).v1 = v => h_verdict.result = FALSE

\* C16: for a header with both keys and an in-tolerance timestamp the
\* result is true if and only if v1 is the HMAC of '<t>.<payload>' under the
\* secret, so that a header valid for one payload and secret is invalid for
\* every other payload and for every other secret.
C16_ValidForOnePayloadAndSecret ==
    (/\ h_pc = "done"
     /\ Comparable(h_signature, h_tolerance, h_nowMs)
     /\ h_verdict.result = TRUE) =>
        /\ DigestMatches(h_payload, h_signature, h_secret)
        /\ \A p \in Payloads :
              (p.kind = h_payload.kind /\ p # h_payload) =>
                 ~VerifyWebhookSignature(p, h_signature, h_secret,
                                         h_tolerance, h_nowMs).result
        /\ \A k \in Secrets :
              k # h_secret =>
                 ~VerifyWebhookSignature(h_payload, h_signature, k,
                                         h_tolerance, h_nowMs).result

\* C17: verifyWebhookSignature never throws: it returns a boolean for every
\* header, and when the byte length of v1 differs from that of the expected
\* digest the result is false and comes from the constant-time comparison
\* routine (its exception caught), not from ordinary string equality.
C17_NeverThrowsLengthMismatch ==
    (h_pc = "done" /\ h_call = "verifyWebhookSignature") =>
        /\ h_outcome.kind = "returned"
        /\ h_outcome.value \in {<<TRUE>>, <<FALSE>>}
        /\ h_verdict.path \in
              {"missing", "stale", "timingSafeEqual", "timingSafeEqual threw"}
        /\ (/\ Comparable(h_signature, h_tolerance, h_nowMs)
            /\ Len(Utf8Encode(SignatureParts(h_signature).v1)) # DigestHexLen) =>
              /\ h_outcome = Returned(<<FALSE>>)
              /\ h_verdict.path = "timingSafeEqual threw"
        /\ (/\ Comparable(h_signature, h_tolerance, h_nowMs)
            /\ Len(Utf8Encode(SignatureParts(h_signature).v1)) = DigestHexLen) =>
              h_verdict.path = "timingSafeEqual"

C17_Witness ==
    /\ h_pc = "done"
    /\ h_call = "verifyWebhookSignature"
    /\ Len(SignatureParts(h_signature).v1) = DigestHexLen
    /\ Len(Utf8Encode(SignatureParts(h_signature).v1)) = DigestHexLen + 1
    /\ h_verdict = [result |-> FALSE, path |-> "timingSafeEqual threw"]
    /\ h_outcome = Returned(<<FALSE>>)

\* C18: constructWebhookEvent raises the signature error ('Invalid webhook
\* signature') exactly when verifyWebhookSignature with the 300 s tolerance
\* returns false, and then has not parsed the payload; otherwise it parses
\* the payload as JSON and returns the event (or fails as the parser does).
C18_EventOnlyAfterVerification ==
    (h_pc = "done" /\ h_call = "constructWebhookEvent") =>
        LET valid == VerifyWebhookSignature(h_payload, h_signature, h_secret,
                                            Num(300), h_nowMs).result
            invalidSignature ==
                /\ h_outcome.kind = "thrown"
                /\ h_outcome.error.class = "Error"
                /\ h_outcome.error.message = <<"Invalid webhook signature">>
        IN  /\ invalidSignature <=> ~valid
            /\ ~valid => ~h_parsed
            /\ valid =>
                  /\ h_parsed
                  /\ IF PayloadStr(h_payload) = <<"{", "}">>
                       THEN h_outcome = Returned(<<"object">>)
                       ELSE /\ h_outcome.kind = "thrown"
                            /\ h_outcome.error.class = "SyntaxError"

C18_Witness ==
    /\ h_pc = "done"
    /\ h_call = "constructWebhookEvent"
    /\ SignatureParts(h_signature).t = <<"7", "0", "0">>
    /\ h_parsed
    /\ h_outcome = Returned(<<"object">>)

----------------------------------------------------------------------------
(* Properties of cancellation and of concurrent calls.                     *)

\* The step starts an invocation of the operation, a status fetch or a sleep.
StartsWork ==
    \/ r_pc # "call" /\ r_pc' = "call"
    \/ r_pc # "sleep" /\ r_pc' = "sleep"
    \/ w_pc # "fetch" /\ w_pc' = "fetch"
    \/ w_pc # "sleep" /\ w_pc' = "sleep"

\* C19: the retry loop and both wait loops check the caller's cancellation
\* before each sleep and before each attempt or poll: once the caller has
\* cancelled, no invocation, status fetch or sleep is started.
C19_NoWorkAfterCancel == [][c_cancelled => ~StartsWork]_vars

\* The configuration a call of withRetry works with when it runs alone: the
\* module's defaults as they are written, under the call's own argument.
SoloConfig(id) ==
    Spread(defaultConfig, IF k_usesPolicy[id] THEN s_policy ELSE NoPolicy)

\* The locals of a call of withRetry are those of the call running alone:
\* its configuration, one attempt counted for each failure, and the sleeps
\* of its own backoff sequence.
RetryAsAlone(locals, id) ==
    locals.pc \notin {"idle", "enter"} =>
        /\ locals.cfg = SoloConfig(id)
        /\ locals.attempt <= locals.cfg.maxAttempts
        /\ locals.invocations =
              locals.attempt + (IF locals.outcome.kind = "returned" THEN 1 ELSE 0)
        /\ Len(locals.sleeps) \in {locals.attempt - 1, locals.attempt}
        /\ \A i \in 1 .. Len(locals.sleeps) :
              locals.sleeps[i] =
                  Min(locals.cfg.initialDelay * Pow(locals.cfg.backoffFactor, i - 1),
                      locals.cfg.maxDelay)

\* The locals of a wait are those of the wait running alone: one fetch for
\* each turn of the loop and the clock at least a poll interval further
\* after each sleep.
WaitAsAlone(locals) ==
    locals.pc # "idle" =>
        /\ locals.fetches - locals.sleeps \in {0, 1}
        /\ locals.now >= locals.startTime + locals.sleeps * locals.pollInterval
        /\ (/\ locals.outcome.kind = "thrown"
            /\ locals.outcome.error.message[1] \in
                  {"Render job timed out after ", "Batch render timed out after "})
              => locals.outcome.error.message[2] = locals.timeout

\* What a wait was called with, and when.
WaitArguments(locals) ==
    <<locals.call, locals.timeout, locals.pollInterval, locals.startTime>>

\* A step of concurrent calls writes no object the calls share and no local
\* of the call that does not take it; resuming the other call hands both
\* calls' locals over as they are.
ConcurrentStep ==
    /\ s_defaultConfig' = s_defaultConfig
    /\ s_policy' = s_policy
    /\ k_usesPolicy' = k_usesPolicy
    /\ IF k_running' = k_running
         THEN k_parkedRetry' = k_parkedRetry
         ELSE k_parkedRetry' = RetryLocals /\ RetryLocals' = k_parkedRetry
    /\ \/ k_parkedWait' = k_parkedWait
       \/ k_parkedWait' = WaitLocalsNow /\ WaitLocalsNow' = k_parkedWait
    /\ {WaitArguments(WaitLocalsNow'), WaitArguments(k_parkedWait')}
          = {WaitArguments(WaitLocalsNow), WaitArguments(k_parkedWait)}
    /\ RetryLocals' # RetryLocals => WaitLocalsNow' = WaitLocalsNow
    /\ WaitLocalsNow' # WaitLocalsNow => RetryLocals' = RetryLocals

\* C20: concurrent calls of withRetry, waitForCompletion and waitForBatch
\* share no mutable state: under every interleaving of two calls, with the
\* same policy object or not, each call's attempt counter, delay and start
\* time evolve as when it runs alone, so that it makes the same invocations
\* and sleeps the same durations.
C20_ConcurrentCallsIndependent ==
    /\ [](/\ s_defaultConfig = defaultConfig
          /\ RetryAsAlone(RetryLocals, k_running)
          /\ RetryAsAlone(k_parkedRetry, 3 - k_running)
          /\ WaitAsAlone(WaitLocalsNow)
          /\ WaitAsAlone(k_parkedWait))
    /\ [][ConcurrentStep]_vars

C20_Witness ==
    /\ r_pc = "done"
    /\ k_parkedRetry.pc = "done"
    /\ k_usesPolicy[1] /\ ~k_usesPolicy[2]
    /\ Len(r_sleeps) >= 1
    /\ Len(k_parkedRetry.sleeps) >= 1
    /\ r_sleeps # k_parkedRetry.sleeps

----------------------------------------------------------------------------
(* Further properties of withRetry.                                        *)

\* The k-th delay of the geometric backoff sequence of the policy in use.
Schedule(k) ==
    Min(r_cfg.initialDelay * Pow(r_cfg.backoffFactor, k - 1), r_cfg.maxDelay)

\* Some sleep before the last one was not the schedule's: a server hint
\* replaced the delay.
HintedBefore ==
    \E j \in 1 .. Len(r_sleeps) - 1 : r_sleeps[j] # Schedule(j)

\* C21: a server-hinted wait does not alter the geometric backoff sequence:
\* under a RetryPolicy (maxDelay >= initialDelay), a sleep that follows a
\* hinted one and is itself not hinted lasts what the schedule gives for its
\* position, min(initialDelay * backoffFactor^(k-1), maxDelay), not a value
\* derived from the hint.
C21_HintLeavesScheduleAlone ==
    (/\ r_pc = "sleep"
     /\ r_cfg.initialDelay <= r_cfg.maxDelay
     /\ ~HasRetryAfter(r_error)
     /\ HintedBefore) =>
        LastSleep = Schedule(Len(r_sleeps))

\* C22: withRetry sleeps only between two invocations of the operation. Under
\* a RetryPolicy (maxAttempts >= 1) a sleep is started only by the step that
\* handles a failed invocation and is followed by another invocation; the
\* invocation that succeeds or whose error is propagated is followed by no
\* sleep, so a run that has ended made one sleep fewer than invocations, and
\* a first-attempt success made one invocation and no sleep.
C22_SleepsOnlyBetweenInvocations ==
    /\ [](r_cfg.maxAttempts >= 1 =>
            /\ (r_pc = "done" => Len(r_sleeps) = r_invocations - 1)
            /\ (r_pc = "sleep" =>
                  /\ Len(r_sleeps) = r_invocations
                  /\ r_error.id = r_invocations
                  /\ r_attempt < r_cfg.maxAttempts)
            /\ (r_pc \in {"loop", "call"} =>
                  /\ Len(r_sleeps) = r_invocations
                  /\ r_attempt < r_cfg.maxAttempts)
            /\ (r_outcome.kind = "returned" /\ r_attempt = 0 =>
                  r_invocations = 1 /\ r_sleeps = <<>>))
    /\ [][r_cfg.maxAttempts >= 1 =>
            /\ (r_sleeps' # r_sleeps =>
                  /\ r_pc = "call" /\ r_pc' = "sleep"
                  /\ r_invocations' = r_invocations + 1
                  /\ Len(r_sleeps') = Len(r_sleeps) + 1
                  /\ r_outcome' = NoOutcome)
            /\ (r_pc = "sleep" => r_pc' = "loop" /\ r_sleeps' = r_sleeps)
            /\ (r_pc = "loop" => r_pc' = "call" /\ r_sleeps' = r_sleeps)
            /\ (r_pc' = "done" => r_sleeps' = r_sleeps)]_vars

C22_Witness ==
    /\ r_pc = "done"
    /\ r_outcome.kind = "returned"
    /\ r_invocations = 3
    /\ Len(r_sleeps) = 2

----------------------------------------------------------------------------
(* Further properties of the wait loops.                                   *)

\* C23: in waitForCompletion and waitForBatch the elapsed-time test precedes
\* every poll: a status fetch is started only by the loop test, at a moment
\* when the time elapsed since the wait began is < timeout; a loop test that
\* finds the deadline passed, a slow fetch having crossed it in flight or
\* not, starts no fetch and ends the wait.
C23_NoFetchStartedPastDeadline ==
    /\ [](w_call # "none" => (w_pc = "fetch" => Elapsed < w_timeout))
    /\ [][w_call # "none" =>
            /\ (w_pc # "fetch" /\ w_pc' = "fetch") =>
                  (w_pc = "loop" /\ Elapsed < w_timeout /\ w_now' = w_now)
            /\ (w_pc = "loop" /\ Elapsed >= w_timeout) =>
                  (w_pc' = "done" /\ w_fetches' = w_fetches)
            /\ w_fetches' # w_fetches =>
                  (w_pc = "fetch" /\ w_fetches' = w_fetches + 1)]_vars

\* One fetch that took the whole timeout and observed nothing terminal, one
\* sleep, and the wait has ended with the timeout error.
C23_Witness ==
    /\ w_call # "none"
    /\ w_outcome = Thrown(TimeoutErrorOf(w_call))
    /\ w_fetches = 1
    /\ w_sleeps = 1
    /\ w_timeout >= 3
    /\ Elapsed >= w_timeout + w_pollInterval

\* C24: waitForCompletion treats every status other than exactly 'completed'
\* and exactly 'failed' as still waiting: a poll that observes 'pending',
\* 'processing' or any other string, 'Completed' and 'FAILED' included,
\* neither resolves nor fails the wait; the loop sleeps pollInterval and goes
\* back to its test, which polls again while the deadline has not passed.
C24_OtherStatusesKeepWaiting ==
    /\ [](w_call = "waitForCompletion" =>
            /\ (w_outcome.kind = "returned" => w_status.status = "completed")
            /\ (w_outcome.kind = "thrown"
                  /\ w_outcome.error.origin = "waitForCompletion"
                  /\ w_outcome.error.message[1] = "Render job failed: ") =>
                  w_status.status = "failed"
            /\ (w_fetches >= 1 /\ ~Terminal(w_status) /\ w_pc = "done") =>
                  \/ w_outcome = Thrown(JobTimeoutError(w_timeout))
                  \/ w_outcome.error.origin = "request")
    /\ [][w_call = "waitForCompletion" =>
            /\ (w_pc = "fetch" /\ w_outcome'.kind # "thrown"
                  /\ ~Terminal(w_status')) =>
                  (w_pc' = "sleep" /\ w_outcome' = NoOutcome)
            /\ w_pc = "sleep" =>
                  /\ w_pc' = "loop"
                  /\ w_sleeps' = w_sleeps + 1
                  /\ w_now' >= w_now + w_pollInterval
            /\ (w_pc = "loop" /\ Elapsed < w_timeout) => w_pc' = "fetch"]_vars

C24_Witness ==
    /\ w_call = "waitForCompletion"
    /\ w_status.status = "Completed"
    /\ w_pc = "fetch"
    /\ w_fetches = 1
    /\ w_sleeps = 1

----------------------------------------------------------------------------
(* Further properties of the webhook signatures.                           *)

\* C25: a header whose t is malformed (not a decimal integer: text with no
\* digit, or digits followed by other characters) is invalid:
\* verifyWebhookSignature returns false for it, also when its v1 is the HMAC
\* of '<t>.<payload>' for that very t.
C25_MalformedTimestampIsInvalid ==
    (/\ h_pc = "done"
     /\ HasPair(h_signature, <<"t">>)
     /\ HasPair(h_signature, <<"v", "1">>)
     /\ ~IsIntegerText(SignatureParts(h_signature).t)) =>
        h_verdict.result = FALSE

\* C27: a terminal observation wins over the deadline: when a status fetch
\* returns after timeout ms have elapsed since the wait began, 'completed'
\* (for a batch, the completion flag true) still makes the wait return that
\* result and 'failed' still makes it raise the failure error, never the
\* timeout error.
C27_TerminalObservationWinsOverDeadline ==
    (w_call # "none" /\ Elapsed >= w_timeout) =>
        /\ (w_call = "waitForCompletion" /\ w_status.status = "completed") =>
              (w_pc = "done" /\ w_outcome = Returned(w_status))
        /\ (w_call = "waitForCompletion" /\ w_status.status = "failed") =>
              /\ w_pc = "done"
              /\ w_outcome = Thrown(JobFailedError(w_status))
              /\ w_outcome # Thrown(JobTimeoutError(w_timeout))
        /\ (w_call = "waitForBatch" /\ w_response.completed) =>
              (w_pc = "done" /\ w_outcome = Returned(w_response.jobs))

\* The second fetch, started before the deadline, returned 'failed' after it.
C27_Witness ==
    /\ w_call = "waitForCompletion"
    /\ w_status.status = "failed"
    /\ w_fetches = 2
    /\ Elapsed > w_timeout
    /\ w_outcome.kind = "thrown"
    /\ w_outcome.error.message[1] = "Render job failed: "

\* C28: when a status fetch of waitForCompletion or of waitForBatch rejects
\* (with an error of any mapped kind, RateLimit and Server included, or with
\* the error of a request that timed out), the wait ends at once with that
\* same error: the fetch is not retried, no sleep follows and no later poll
\* is made.
C28_FetchErrorEndsTheWait ==
    /\ [](w_call # "none" =>
            /\ (w_rejection # NoError =>
                  /\ w_pc = "done"
                  /\ w_outcome = Thrown(w_rejection)
                  /\ w_rejection.id = w_fetches
                  /\ w_sleeps = w_fetches - 1)
            /\ (w_outcome.kind = "thrown" /\ w_outcome.error.origin = "request") =>
                  w_outcome.error = w_rejection)
    /\ [][w_call # "none" =>
            /\ w_rejection' # w_rejection =>
                  /\ w_pc = "fetch" /\ w_pc' = "done"
                  /\ w_fetches' = w_fetches + 1
                  /\ w_sleeps' = w_sleeps
            /\ w_rejection # NoError =>
                  (w_fetches' = w_fetches /\ w_sleeps' = w_sleeps)]_vars

\* The second status fetch was rate limited.
C28_Witness ==
    /\ w_call = "waitForBatch"
    /\ w_rejection.class = "RateLimitError"
    /\ w_fetches = 2
    /\ w_sleeps = 1
    /\ w_pc = "done"
    /\ w_outcome.error.class = "RateLimitError"

\* ceil(timeout / pollInterval), the number of polls that fit before the
\* deadline when each sleep lasts at least pollInterval.
FetchBound ==
    IF w_pollInterval > 0
      THEN (w_timeout + w_pollInterval - 1) \div w_pollInterval
      ELSE 0

\* The timeouts and the poll intervals a wait works with: what the caller
\* gave when it is not 0, the default of the call otherwise.
TimeoutsOf(call) ==
    {1, 2, 3} \cup {IF call = "waitForCompletion" THEN JobDefaultTimeout
                    ELSE BatchDefaultTimeout}

PollIntervalsOf(call) ==
    {1, 2} \cup {IF call = "waitForCompletion" THEN JobDefaultPollInterval
                 ELSE BatchDefaultPollInterval}

\* C29: both wait loops terminate: when every status fetch returns and each
\* sleep advances the clock by at least pollInterval, waitForCompletion and
\* waitForBatch reach an outcome (result, failure error, timeout error) after
\* at most ceil(timeout / pollInterval) status fetches, with exactly one
\* sleep of pollInterval between two consecutive fetches; a timeout or a
\* pollInterval given as 0 or omitted is the default of the call (300000 and
\* 2000 ms for a job, 600000 and 5000 ms for a batch).
C29_WaitTerminatesWithinFetchBound ==
    /\ [](w_call # "none" =>
            /\ w_timeout \in TimeoutsOf(w_call)
            /\ w_pollInterval \in PollIntervalsOf(w_call)
            /\ w_fetches <= FetchBound
            /\ (w_pc \in {"loop", "fetch"} => w_sleeps = w_fetches)
            /\ (w_pc = "sleep" => w_sleeps = w_fetches - 1)
            /\ (w_pc = "done" =>
                  /\ w_outcome # NoOutcome
                  /\ w_sleeps \in {w_fetches - 1, w_fetches}))
    /\ [][w_call # "none" =>
            /\ w_sleeps' # w_sleeps =>
                  /\ w_pc = "sleep"
                  /\ w_sleeps' = w_sleeps + 1
                  /\ w_now' >= w_now + w_pollInterval
            /\ w_fetches' # w_fetches => w_sleeps = w_fetches]_vars
    /\ [](w_call # "none" /\ FetchBound <= MaxPolls => <>(w_pc = "done"))

\* A wait of 3 ms polling every 2 ms that observed nothing terminal: two
\* fetches, two sleeps and the timeout error.
C29_Witness ==
    /\ w_call = "waitForCompletion"
    /\ w_timeout = 3
    /\ w_pollInterval = 2
    /\ w_fetches = 2
    /\ w_sleeps = 2
    /\ w_outcome = Thrown(JobTimeoutError(3))

----------------------------------------------------------------------------
(* Properties of iterateAll.                                               *)

Max(a, b) == IF a >= b THEN a ELSE b

IsPrefix(a, b) == Len(a) <= Len(b) /\ SubSeq(b, 1, Len(a)) = a

\* The totalPages the last response reported, a missing one counting as 1.
ReportedTotalPages == IF p_totalPages = Undefined THEN 1 ELSE p_totalPages.v

\* The pages are requested in the order 1, 2, 3, ..., one request each, and
\* the items are yielded in the order received, all the items of a page
\* before the next page is requested.
PagesInOrder ==
    /\ \A i \in 1 .. Len(p_requests) : p_requests[i].page = i
    /\ IsPrefix(p_yielded, p_received)
    /\ (p_pc = "await" \/ p_outcome = Exhausted) => p_yielded = p_received

\* A request is made by the first next() or after the last item of a page
\* that is not empty and whose number is below the totalPages it reported;
\* an empty page, or a page whose number is >= that totalPages, ends the
\* iteration, and an iteration that has ended makes no request.
StopsAtLastPage ==
    /\ p_requests' # p_requests =>
          /\ p_requests' = Append(p_requests, [page |-> Len(p_requests) + 1,
                                               limit |-> p_limit])
          /\ \/ p_pc = "start"
             \/ /\ p_pc = "yield"
                /\ p_data # <<>>
                /\ p_index = Len(p_data)
                /\ p_page < ReportedTotalPages
    /\ (p_pc = "await" /\ p_outcome'.kind # "thrown" /\ p_data' = <<>>) =>
          (p_pc' = "done" /\ p_requests' = p_requests)
    /\ (p_pc = "yield" /\ p_index = Len(p_data) /\ p_page >= ReportedTotalPages) =>
          (p_pc' = "done" /\ p_requests' = p_requests)
    /\ p_pc = "done" => p_requests' = p_requests

\* C30 as stated, its last part: against a server reporting a fixed finite
\* totalPages, iterateAll requests the pages in order and no page number
\* above totalPages.
C30_Original_NoPageAboveTotalPages ==
    p_call # "none" =>
        /\ PagesInOrder
        /\ p_server # Undefined =>
              \A i \in 1 .. Len(p_requests) : p_requests[i].page <= p_server.v

\* C30 (amended): iterateAll requests pages 1, 2, 3, ... in increasing
\* order, one request per page, yields every item of each fetched page in
\* the order received, and stops after the first page that is empty or whose
\* number is >= the totalPages reported in that response (a missing
\* totalPages counts as 1); it makes no request after stopping, so against a
\* server reporting a fixed finite totalPages it terminates having requested
\* page 1 and no page number above max(totalPages, 1).
C30_IteratesPagesInOrderAndStops ==
    /\ [](p_call # "none" =>
            /\ PagesInOrder
            /\ p_server # Undefined =>
                  \A i \in 1 .. Len(p_requests) :
                      p_requests[i].page <= Max(p_server.v, 1))
    /\ [][p_call # "none" => StopsAtLastPage]_vars
    /\ [](p_call # "none" /\ p_server # Undefined => <>(p_pc = "done"))

\* Three pages of a server that reports totalPages 3, all items yielded.
C30_Witness ==
    /\ p_server = Num(3)
    /\ Len(p_requests) = 3
    /\ p_requests[3].page = 3
    /\ p_outcome = Exhausted
    /\ Len(p_yielded) >= 4
    /\ p_yielded = p_received

====
